---- MODULE Spec2Model ----
(***************************************************************************)
(* Model of the query-harbor hooks.  This part models the form encoder of  *)
(* useGlobalMutation: the recursive appendToFormData of the JavaScript     *)
(* copy (src/src/hooks/useGlobalMutation.js) and of the TypeScript copy    *)
(* (src/src/hooks/useGlobalMutation.ts), and the loop of mutationFn that   *)
(* feeds it the top-level keys of the data to upload.                      *)
(*                                                                         *)
(* JavaScript strings that the encoder builds or compares (field names,    *)
(* mapping keys, members of excludedIndexKeys) are sequences of lexemes:   *)
(* "metadata[tags][0]" is <<"metadata","[","tags","]","[","0","]">> and    *)
(* the empty string is <<>>.  Template literals are concatenations (\o).   *)
(* Values that are only carried (the text of a primitive, a file's name)   *)
(* are TLA+ strings.                                                       *)
(***************************************************************************)
EXTENDS Integers, Sequences, FiniteSets, TLC

VARIABLES
    dataToUpload,       \* the mapping handed to mutationFn
    excludedIndexKeys,  \* the hook's excludedIndexKeys parameter
    formDataJs,         \* the FormData of the JavaScript copy's call
    formDataTs,         \* the FormData of the TypeScript copy's call
    pcJs,               \* "idle", "done" or "threw": the JavaScript copy's mutationFn
    pcTs,               \* "idle", "done" or "threw": the TypeScript copy's mutationFn
    hook,               \* what the component calls: "none", "mutation", "query", "infinite", "adapter"
    copy,               \* the copy of that hook: "js" or "ts"
    cookie,             \* the cookies object that useCookies returns
    params,             \* the parameters the component passes to the hook
    heap,               \* the FormData objects created so far, by identity
    runs,               \* the mutation runs started by runMutation, oldest first
    query,              \* the query of useGlobalQuery
    infinite,           \* the infinite query of useGlobalInfiniteQuery
    api                 \* a direct call of APIHandler

encoderVars == <<dataToUpload, formDataJs, formDataTs, pcJs, pcTs>>
hookVars == <<hook, copy, cookie, params, heap, runs, query, infinite, api>>
vars == <<dataToUpload, excludedIndexKeys, formDataJs, formDataTs, pcJs, pcTs,
          hook, copy, cookie, params, heap, runs, query, infinite, api>>

-----------------------------------------------------------------------------
(* Bounds of the input domain.                                             *)

MaxLen == 3         \* longest array of leaves
MaxFlatKeys == 4    \* most keys of a flat root mapping
MaxOuterLen == 2    \* longest array with containers among its elements
MaxExcluded == 1    \* most members of excludedIndexKeys

-----------------------------------------------------------------------------
(* JavaScript values.                                                      *)

Null == [t |-> "null"]
Undefined == [t |-> "undefined"]
Str(s) == [t |-> "string", s |-> s]
Num(n) == [t |-> "number", n |-> n]
Bool(b) == [t |-> "boolean", b |-> b]
\* a File: an object without own enumerable keys (Object.keys gives [])
File(name) == [t |-> "file", name |-> name, keys |-> <<>>, vals |-> <<>>]
Arr(items) == [t |-> "array", items |-> items]
\* a mapping: its keys in Object.keys order, and the value of each
Obj(keys, vals) == [t |-> "object", keys |-> keys, vals |-> vals]

\* String(v), which is also what FormData.append does to a non-Blob value
String(v) ==
    CASE v.t = "string" -> v.s
      [] v.t = "number" -> ToString(v.n)
      [] v.t = "boolean" -> (IF v.b THEN "true" ELSE "false")
      [] v.t = "null" -> "null"
      [] v.t = "undefined" -> "undefined"

\* typeof v === "object" && v !== null
IsNonNullObject(v) == v.t \in {"array", "object", "file"}

\* formData.append(name, value): a File is stored as it is, anything else
\* as its string form
FormDataAppend(formData, name, value) ==
    IF value.t = "file"
    THEN Append(formData, [name |-> name, kind |-> "file", value |-> value.name])
    ELSE Append(formData, [name |-> name, kind |-> "text", value |-> String(value)])

\* const { excludedIndexKeys = [] } = options
ExcludedOf(options) ==
    IF options.given THEN options.list ELSE {}

-----------------------------------------------------------------------------
(* appendToFormData, JavaScript copy.                                      *)

RECURSIVE appendToFormDataJs(_, _, _, _)
RECURSIVE forEachItemJs(_, _, _, _, _)
RECURSIVE forEachKeyJs(_, _, _, _, _)

\* itemKeyJs without the exclusion test: every element gets its index
itemKeyJs_AlwaysIndexed(parentKey, index, options) ==
    IF parentKey # <<>>
    THEN parentKey \o <<"[", ToString(index), "]">>
    ELSE <<ToString(index)>>

\* itemKeyJs with the exclusion test inverted
itemKeyJs_Inverted(parentKey, index, options) ==
    LET shouldExcludeIndex == parentKey \notin ExcludedOf(options)
    IN  IF shouldExcludeIndex THEN parentKey
        ELSE IF parentKey # <<>>
             THEN parentKey \o <<"[", ToString(index), "]">>
             ELSE <<ToString(index)>>

\* itemKeyJs testing the top-level key the path starts with, not the path
itemKeyJs_TopLevelMatch(parentKey, index, options) ==
    LET shouldExcludeIndex ==
            parentKey # <<>> /\ <<Head(parentKey)>> \in ExcludedOf(options)
    IN  IF shouldExcludeIndex THEN parentKey
        ELSE IF parentKey # <<>>
             THEN parentKey \o <<"[", ToString(index), "]">>
             ELSE <<ToString(index)>>

\* itemKeyJs with the index counted from 1
itemKeyJs_OneBased(parentKey, index, options) ==
    LET shouldExcludeIndex == parentKey \in ExcludedOf(options)
    IN  IF shouldExcludeIndex THEN parentKey
        ELSE IF parentKey # <<>>
             THEN parentKey \o <<"[", ToString(index + 1), "]">>
             ELSE <<ToString(index + 1)>>

\* the field name of the element at index of the array reached at parentKey
itemKeyJs(parentKey, index, options) ==
    LET shouldExcludeIndex == parentKey \in ExcludedOf(options)
    IN  IF shouldExcludeIndex THEN parentKey
        ELSE IF parentKey # <<>>
             THEN parentKey \o <<"[", ToString(index), "]">>
             ELSE <<ToString(index)>>

\* constructedKeyJs in dot notation
constructedKeyJs_Dotted(parentKey, key) ==
    IF parentKey # <<>>
    THEN parentKey \o <<".">> \o key
    ELSE key

\* the field name of key in the mapping reached at parentKey
constructedKeyJs(parentKey, key) ==
    IF parentKey # <<>>
    THEN parentKey \o <<"[">> \o key \o <<"]">>
    ELSE key

\* data.forEach((item, index) => ...), from the 1-based position i on
forEachItemJs(formData, data, i, parentKey, options) ==
    IF i > Len(data.items) THEN formData
    ELSE LET item == data.items[i]
             index == i - 1
             key == itemKeyJs(parentKey, index, options)
             after == IF item.t = "file"
                      THEN FormDataAppend(formData, key, item)
                      ELSE IF IsNonNullObject(item)
                           THEN appendToFormDataJs(formData, item, key, options)
                           ELSE FormDataAppend(formData, key, item)
         IN  forEachItemJs(after, data, i + 1, parentKey, options)

\* Object.keys(data).forEach((key) => ...), from the 1-based position i on
forEachKeyJs(formData, data, i, parentKey, options) ==
    IF i > Len(data.keys) THEN formData
    ELSE LET key == data.keys[i]
             value == data.vals[i]
             constructedKey == constructedKeyJs(parentKey, key)
             after == appendToFormDataJs(formData, value, constructedKey, options)
         IN  forEachKeyJs(after, data, i + 1, parentKey, options)

\* appendToFormDataJs without the File test ahead of the traversal by keys
appendToFormDataJs_NoFileTest(formData, data, parentKey, options) ==
    IF data.t = "null" \/ data.t = "undefined" THEN formData
    ELSE IF data.t = "array"
    THEN forEachItemJs(formData, data, 1, parentKey, options)
    ELSE IF IsNonNullObject(data)
    THEN forEachKeyJs(formData, data, 1, parentKey, options)
    ELSE IF ~(data.t = "string" /\ data.s = "")
    THEN FormDataAppend(formData, parentKey, data)
    ELSE formData

appendToFormDataJs(formData, data, parentKey, options) ==
    IF data.t = "null" \/ data.t = "undefined" THEN formData
    ELSE IF data.t = "array"
    THEN forEachItemJs(formData, data, 1, parentKey, options)
    ELSE IF IsNonNullObject(data)
    THEN IF data.t = "file"
         THEN FormDataAppend(formData, parentKey, data)
         ELSE forEachKeyJs(formData, data, 1, parentKey, options)
    ELSE IF ~(data.t = "string" /\ data.s = "")
    THEN FormDataAppend(formData, parentKey, data)
    ELSE formData

-----------------------------------------------------------------------------
(* appendToFormData, TypeScript copy.                                      *)

RECURSIVE appendToFormDataTs(_, _, _, _)
RECURSIVE forEachItemTs(_, _, _, _, _)
RECURSIVE forEachKeyTs(_, _, _, _, _)

itemKeyTs(parentKey, index, options) ==
    LET shouldExcludeIndex == parentKey \in ExcludedOf(options)
    IN  IF shouldExcludeIndex THEN parentKey
        ELSE IF parentKey # <<>>
             THEN parentKey \o <<"[", ToString(index), "]">>
             ELSE <<ToString(index)>>

constructedKeyTs(parentKey, key) ==
    IF parentKey # <<>>
    THEN parentKey \o <<"[">> \o key \o <<"]">>
    ELSE key

forEachItemTs(formData, data, i, parentKey, options) ==
    IF i > Len(data.items) THEN formData
    ELSE LET item == data.items[i]
             index == i - 1
             key == itemKeyTs(parentKey, index, options)
             after == IF item.t = "file"
                      THEN FormDataAppend(formData, key, item)
                      ELSE IF IsNonNullObject(item)
                           THEN appendToFormDataTs(formData, item, key, options)
                           ELSE FormDataAppend(formData, key, Str(String(item)))
         IN  forEachItemTs(after, data, i + 1, parentKey, options)

forEachKeyTs(formData, data, i, parentKey, options) ==
    IF i > Len(data.keys) THEN formData
    ELSE LET key == data.keys[i]
             after == appendToFormDataTs(formData, data.vals[i],
                          constructedKeyTs(parentKey, key), options)
         IN  forEachKeyTs(after, data, i + 1, parentKey, options)

appendToFormDataTs(formData, data, parentKey, options) ==
    IF data.t = "null" \/ data.t = "undefined" THEN formData
    ELSE IF data.t = "array"
    THEN forEachItemTs(formData, data, 1, parentKey, options)
    ELSE IF IsNonNullObject(data)
    THEN IF data.t = "file"
         THEN FormDataAppend(formData, parentKey, data)
         ELSE forEachKeyTs(formData, data, 1, parentKey, options)
    ELSE FormDataAppend(formData, parentKey, Str(String(data)))

-----------------------------------------------------------------------------
(* mutationFn, FormData branch: a fresh FormData, then one call of         *)
(* appendToFormData for each top-level key.                                *)

RECURSIVE forEachTopKeyJs(_, _, _, _)

\* forEachTopKeyJs walking the top-level keys from the last to the first
forEachTopKeyJs_Reversed(formData, data, i, options) ==
    IF i > Len(data.keys) THEN formData
    ELSE LET r == Len(data.keys) + 1 - i
         IN  forEachTopKeyJs(
                 appendToFormDataJs(formData, data.vals[r], data.keys[r], options),
                 data, i + 1, options)

forEachTopKeyJs(formData, data, i, options) ==
    IF i > Len(data.keys) THEN formData
    ELSE forEachTopKeyJs(
             appendToFormDataJs(formData, data.vals[i], data.keys[i], options),
             data, i + 1, options)

RECURSIVE forEachTopKeyTs(_, _, _, _)
forEachTopKeyTs(formData, data, i, options) ==
    IF i > Len(data.keys) THEN formData
    ELSE forEachTopKeyTs(
             appendToFormDataTs(formData, data.vals[i], data.keys[i], options),
             data, i + 1, options)

EncodeJs(data, excluded) == forEachTopKeyJs(<<>>, data, 1, excluded)
EncodeTs(data, excluded) == forEachTopKeyTs(<<>>, data, 1, excluded)

-----------------------------------------------------------------------------
(* Where the encoder raises.  excludedIndexKeys.includes(parentKey) is a   *)
(* TypeError when, after the default [] has replaced an absent list, the   *)
(* value is null; it is evaluated for each element of each array the       *)
(* traversal reaches.  Object.keys(dataToUpload) is a TypeError in the     *)
(* JavaScript copy when the data is null or undefined; the TypeScript copy *)
(* walks {} instead.                                                       *)

\* the caller passed excludedIndexKeys: null
IsNullList(options) == options.given /\ "isNull" \in DOMAIN options

\* includesRaises without the default []: an absent list is undefined
includesRaises_NoDefault(options) ==
    ~options.given \/ IsNullList(options)

includesRaises(options) ==
    LET defaulted == IF options.given THEN options ELSE [given |-> TRUE, list |-> {}]
    IN  IsNullList(defaulted)

RECURSIVE appendRaisesJs(_, _)
appendRaisesJs(data, options) ==
    IF data.t = "null" \/ data.t = "undefined" THEN FALSE
    ELSE IF data.t = "array"
    THEN \E i \in 1..Len(data.items) :
             \/ includesRaises(options)
             \/ /\ data.items[i].t # "file"
                /\ IsNonNullObject(data.items[i])
                /\ appendRaisesJs(data.items[i], options)
    ELSE IF IsNonNullObject(data) /\ data.t # "file"
    THEN \E i \in 1..Len(data.keys) : appendRaisesJs(data.vals[i], options)
    ELSE FALSE

RECURSIVE appendRaisesTs(_, _)
appendRaisesTs(data, options) ==
    IF data.t = "null" \/ data.t = "undefined" THEN FALSE
    ELSE IF data.t = "array"
    THEN \E i \in 1..Len(data.items) :
             \/ includesRaises(options)
             \/ /\ data.items[i].t # "file"
                /\ IsNonNullObject(data.items[i])
                /\ appendRaisesTs(data.items[i], options)
    ELSE IF IsNonNullObject(data) /\ data.t # "file"
    THEN \E i \in 1..Len(data.keys) : appendRaisesTs(data.vals[i], options)
    ELSE FALSE

\* Object.keys(dataToUpload).forEach(...)
EncodeRaisesJs(data, options) ==
    \/ data.t = "null" \/ data.t = "undefined"
    \/ \E i \in 1..Len(data.keys) : appendRaisesJs(data.vals[i], options)

\* Object.keys(dataToUpload || {}).forEach(...)
EncodeRaisesTs(data, options) ==
    /\ ~(data.t = "null" \/ data.t = "undefined")
    /\ \E i \in 1..Len(data.keys) : appendRaisesTs(data.vals[i], options)

-----------------------------------------------------------------------------
(* The inputs: root mappings and exclusion lists.                          *)

SeqsUpTo(S, n) == UNION {[1..k -> S] : k \in 0..n}

Leaves == {Null, Undefined, Str(""), Str("x"), Num(0), Bool(FALSE), File("f1")}
FlatLeaves == {Null, Undefined, Str(""), Num(0), Bool(FALSE)}
DeepLeaves == {Null, File("f1")}

FlatKeyNames == <<"a", "b", "c", "d", "e">>
TopKeys == {<<"files">>, <<"metadata">>}
InnerKeys == {<<"files">>, <<"x">>}
EmptyKey == <<>>

\* key sequences of a mapping: no key twice
KeySeqs(K, n) == {ks \in SeqsUpTo(K, n) : \A i, j \in 1..Len(ks) : ks[i] = ks[j] => i = j}

ObjsOver(K, n, S) ==
    UNION {{Obj(ks, vs) : vs \in [1..Len(ks) -> S]} : ks \in KeySeqs(K, n)}

ArrsOver(S, n) == {Arr(items) : items \in SeqsUpTo(S, n)}

\* {a: l1, b: l2, ...}
FlatRoots ==
    UNION {{Obj([i \in 1..k |-> <<FlatKeyNames[i]>>], vs) : vs \in [1..k -> FlatLeaves]}
           : k \in 0..MaxFlatKeys}

\* one container of leaves under one top-level key, which may be ""
ShallowValues == ArrsOver(Leaves, MaxLen) \cup ObjsOver(InnerKeys, 2, Leaves)
ShallowRoots ==
    {Obj(<<k>>, <<v>>) : k \in TopKeys \cup {EmptyKey}, v \in ShallowValues}

\* containers in containers under one top-level key
DeepElements ==
    DeepLeaves \cup ArrsOver(DeepLeaves, 2) \cup ObjsOver(InnerKeys, 1, DeepLeaves)
DeepValues == ArrsOver(DeepElements, MaxOuterLen) \cup ObjsOver(InnerKeys, 2, DeepElements)
DeepRoots == {Obj(<<k>>, <<v>>) : k \in TopKeys, v \in DeepValues}

\* two top-level keys, in either order: {files: [...], metadata: {k: [...]}}
PairRoots ==
    LET as == ArrsOver(DeepLeaves \cup {Str("x")}, 2)
        os == {Obj(<<k>>, <<a>>) : k \in InnerKeys, a \in as}
    IN  {Obj(<<<<"files">>, <<"metadata">>>>, <<a, o>>) : a \in as, o \in os}
        \cup {Obj(<<<<"metadata">>, <<"files">>>>, <<o, a>>) : a \in as, o \in os}

\* the examples of the README and of the specification
ExampleRoots ==
    { Obj(<<<<"file">>, <<"title">>>>, <<File("f1"), Str("My Document")>>),
      Obj(<<<<"file">>, <<"metadata">>, <<"files">>>>,
          <<File("f1"), Obj(<<<<"cover">>>>, <<File("f2")>>), Arr(<<File("f3")>>)>>),
      Obj(<<<<"files">>>>, <<Arr(<<File("f1"), File("f2"), File("f3")>>)>>),
      Obj(<<<<"tags">>>>, <<Arr(<<Str("x"), Str("y")>>)>>),
      Obj(<<<<"tags">>>>, <<Arr(<<Str("x"), Null, Str("y")>>)>>),
      Obj(<<<<"user">>>>,
          <<Obj(<<<<"id">>, <<"role">>>>, <<Num(123), Str("admin")>>)>>),
      Obj(<<<<"files">>, <<"metadata">>>>,
          <<Arr(<<File("f1"), File("f2")>>),
            Obj(<<<<"titles">>>>, <<Arr(<<Str("Doc 1"), Str("Doc 2")>>)>>)>>),
      Obj(<<<<"files">>, <<"metadata">>, <<"timestamp">>, <<"user">>>>,
          <<Arr(<<File("f1"), File("f2")>>),
            Obj(<<<<"department">>, <<"tags">>>>,
                <<Str("HR"), Arr(<<Str("confidential"), Str("employee")>>)>>),
            Str("2024-02-23T10:00:00.000Z"),
            Obj(<<<<"id">>, <<"role">>>>, <<Num(123), Str("admin")>>)>>) }

ExcludableKeys == {<<"files">>, <<"files", "[", "x", "]">>, EmptyKey}

\* excludedIndexKeys: null, which is no list; ExcludedOf reads it as empty
NullList == [given |-> TRUE, list |-> {}, isNull |-> TRUE]

\* the excludedIndexKeys parameter: absent, or a list of keys
ExclusionLists ==
    {[given |-> FALSE]}
    \cup {[given |-> TRUE, list |-> S] :
              S \in {T \in SUBSET ExcludableKeys : Cardinality(T) <= MaxExcluded}}
FlatExclusionLists ==
    {[given |-> FALSE], [given |-> TRUE, list |-> {}], [given |-> TRUE, list |-> {<<"a">>}]}

-----------------------------------------------------------------------------
(* The state machine of one mutationFn call of each copy with isFormData   *)
(* set; the hooks around it are not mounted.                               *)

NoHookMounted ==
    /\ hook = "none"
    /\ copy = "js"
    /\ cookie = Obj(<<>>, <<>>)
    /\ params = Obj(<<>>, <<>>)
    /\ heap = <<>>
    /\ runs = <<>>
    /\ query = [pc |-> "unmounted"]
    /\ infinite = [pc |-> "unmounted"]
    /\ api = [pc |-> "unused"]

Init ==
    /\ \/ dataToUpload \in FlatRoots /\ excludedIndexKeys \in FlatExclusionLists
       \/ dataToUpload \in ShallowRoots \cup DeepRoots \cup PairRoots \cup ExampleRoots
          /\ excludedIndexKeys \in ExclusionLists
       \/ dataToUpload \in PairRoots \cup ExampleRoots /\ excludedIndexKeys = NullList
    /\ formDataJs = <<>>
    /\ formDataTs = <<>>
    /\ pcJs = "idle"
    /\ pcTs = "idle"
    /\ NoHookMounted

\* mutationFn of the JavaScript copy with isFormData set: it ends with the
\* FormData filled ("done") or with a TypeError ("threw")
MutationFnJs ==
    /\ pcJs = "idle"
    /\ IF EncodeRaisesJs(dataToUpload, excludedIndexKeys)
       THEN formDataJs' = formDataJs /\ pcJs' = "threw"
       ELSE /\ formDataJs' = EncodeJs(dataToUpload, excludedIndexKeys)
            /\ pcJs' = "done"
    /\ UNCHANGED <<dataToUpload, excludedIndexKeys, formDataTs, pcTs>>
    /\ UNCHANGED hookVars

\* mutationFn of the TypeScript copy with isFormData set
MutationFnTs ==
    /\ pcTs = "idle"
    /\ IF EncodeRaisesTs(dataToUpload, excludedIndexKeys)
       THEN formDataTs' = formDataTs /\ pcTs' = "threw"
       ELSE /\ formDataTs' = EncodeTs(dataToUpload, excludedIndexKeys)
            /\ pcTs' = "done"
    /\ UNCHANGED <<dataToUpload, excludedIndexKeys, formDataJs, pcJs>>
    /\ UNCHANGED hookVars

Next == MutationFnJs \/ MutationFnTs

Spec == Init /\ [][Next]_vars

-----------------------------------------------------------------------------
(* Vocabulary of the properties.                                           *)

IsNil(v) == v.t \in {"null", "undefined"}
IsEmptyString(v) == v.t = "string" /\ v.s = ""
IsContainer(v) == v.t \in {"array", "object"}

\* the children of a container, in traversal order
ChildrenOf(v) == IF v.t = "array" THEN v.items ELSE v.vals

\* the leaves of a value in depth-first order, nil leaves included
RECURSIVE LeavesOf(_)
RECURSIVE LeavesFrom(_, _)
LeavesFrom(children, i) ==
    IF i > Len(children) THEN <<>>
    ELSE LeavesOf(children[i]) \o LeavesFrom(children, i + 1)
LeavesOf(v) == IF IsContainer(v) THEN LeavesFrom(ChildrenOf(v), 1) ELSE <<v>>

\* a leaf that is to be encoded
IsCountedLeaf(v) == ~IsContainer(v) /\ ~IsNil(v) /\ ~IsEmptyString(v)

JsRan == pcJs = "done"
TsRan == pcTs = "done"

\* the pair carries the leaf: the file itself, or the string form of a primitive
Carries(pair, leaf) ==
    IF leaf.t = "file"
    THEN pair.kind = "file" /\ pair.value = leaf.name
    ELSE pair.kind = "text" /\ pair.value = String(leaf)

-----------------------------------------------------------------------------
(* C1: leaf counting.  Whatever the input tree and the exclusion list, the *)
(* number of pairs a copy of the encoder has appended is the number of     *)
(* leaves of the tree that are neither null/undefined nor the empty        *)
(* string, elements of sequences included.                                 *)

\* C1 for both copies: as many pairs as counted leaves
C1_LeafCounting ==
    LET counted == Len(SelectSeq(LeavesOf(dataToUpload), IsCountedLeaf))
    IN  /\ JsRan => Len(formDataJs) = counted
        /\ TsRan => Len(formDataTs) = counted

-----------------------------------------------------------------------------
(* C2: nil and empty-string suppression at the top level.  The root        *)
(* {a: null, b: "", c: 0, d: false} is encoded as ("c","0"), ("d","false") *)
(* and, in general, a null, an undefined or an empty string that is the    *)
(* value of a top-level key or of a key of a nested mapping emits nothing, *)
(* while every other primitive (0 and false among them) is emitted as its  *)
(* string form; in both copies.                                            *)

TextPair(name, text) == [name |-> name, kind |-> "text", value |-> text]
FilePair(name, file) == [name |-> name, kind |-> "file", value |-> file]

C2Root ==
    Obj(<<<<"a">>, <<"b">>, <<"c">>, <<"d">>>>, <<Null, Str(""), Num(0), Bool(FALSE)>>)
C2Expected == <<TextPair(<<"c">>, "0"), TextPair(<<"d">>, "false")>>

\* the pairs of a mapping of leaves: one for each value that is neither nil
\* nor the empty string, in the order of the keys
RECURSIVE KeptPairs(_, _, _)
KeptPairs(names, vals, i) ==
    IF i > Len(vals) THEN <<>>
    ELSE LET v == vals[i]
             rest == KeptPairs(names, vals, i + 1)
         IN  IF IsNil(v) \/ IsEmptyString(v) THEN rest
             ELSE IF v.t = "file" THEN <<FilePair(names[i], v.name)>> \o rest
             ELSE <<TextPair(names[i], String(v))>> \o rest

IsMappingOfLeaves(v) ==
    v.t = "object" /\ \A i \in 1..Len(v.vals) : ~IsContainer(v.vals[i])

\* the values of the pairs, without their names
ValuesOf(formData) == [i \in 1..Len(formData) |-> <<formData[i].kind, formData[i].value>>]

C2Holds(formData) ==
    /\ dataToUpload = C2Root => formData = C2Expected
    /\ IsMappingOfLeaves(dataToUpload)
           => formData = KeptPairs(dataToUpload.keys, dataToUpload.vals, 1)
    /\ (Len(dataToUpload.keys) = 1 /\ IsMappingOfLeaves(dataToUpload.vals[1]))
           => LET m == dataToUpload.vals[1]
              IN  ValuesOf(formData) = ValuesOf(KeptPairs(m.keys, m.vals, 1))

\* C2 for both copies: nil and "" suppressed, 0 and false kept
C2_NilEmptySuppression ==
    /\ JsRan => C2Holds(formDataJs)
    /\ TsRan => C2Holds(formDataTs)

-----------------------------------------------------------------------------
(* C3: exclusion correctness.  When the root is {k: [v1, ..., vn]} with    *)
(* every vi a file or a primitive and k is a member of excludedIndexKeys,  *)
(* the encoder appends exactly n pairs, all of them named k without        *)
(* brackets or index, the i-th carrying vi.                                *)

IsArrayOfLeaves(v) ==
    v.t = "array" /\ \A i \in 1..Len(v.items) : ~IsContainer(v.items[i])

IsExcludedRootArray ==
    /\ Len(dataToUpload.keys) = 1
    /\ IsArrayOfLeaves(dataToUpload.vals[1])
    /\ dataToUpload.keys[1] \in ExcludedOf(excludedIndexKeys)

C3Holds(formData) ==
    IsExcludedRootArray =>
        LET k == dataToUpload.keys[1]
            items == dataToUpload.vals[1].items
        IN  /\ Len(formData) = Len(items)
            /\ \A i \in 1..Len(items) :
                   formData[i].name = k /\ Carries(formData[i], items[i])

\* C3 for both copies: n pairs named k for {k: [v1..vn]} with k excluded
C3_ExclusionCorrectness ==
    /\ JsRan => C3Holds(formDataJs)
    /\ TsRan => C3Holds(formDataTs)

C3_Witness ==
    /\ JsRan /\ TsRan
    /\ dataToUpload = Obj(<<<<"files">>>>, <<Arr(<<File("f1"), File("f2"), File("f3")>>)>>)
    /\ excludedIndexKeys = [given |-> TRUE, list |-> {<<"files">>}]
    /\ formDataJs = <<FilePair(<<"files">>, "f1"), FilePair(<<"files">>, "f2"),
                      FilePair(<<"files">>, "f3")>>
    /\ formDataTs = formDataJs

-----------------------------------------------------------------------------
(* Arrays of leaves and the path at which the encoder reaches each: the    *)
(* value of a top-level key k (path k), the value of a key k2 of a mapping *)
(* under a non-empty top-level key (path k[k2]) and the element j of an    *)
(* array under a non-empty top-level key (path k[j], or k when k is in     *)
(* excludedIndexKeys).  own: nothing else is encoded under that path.      *)

Bracketed(path, lexeme) == path \o <<"[">> \o lexeme \o <<"]">>

RunsUnder(k, v) ==
    IF IsArrayOfLeaves(v) THEN {[path |-> k, items |-> v.items, own |-> TRUE]}
    ELSE IF v.t = "object" /\ k # <<>>
    THEN {[path |-> Bracketed(k, v.keys[j]), items |-> v.vals[j].items, own |-> TRUE] :
              j \in {j \in 1..Len(v.keys) : IsArrayOfLeaves(v.vals[j])}}
    ELSE IF v.t = "array" /\ k # <<>>
    THEN {[path |-> IF k \in ExcludedOf(excludedIndexKeys) THEN k
                    ELSE Bracketed(k, <<ToString(j - 1)>>),
           items |-> v.items[j].items,
           own |-> k \notin ExcludedOf(excludedIndexKeys)] :
              j \in {j \in 1..Len(v.items) : IsArrayOfLeaves(v.items[j])}}
    ELSE {}

ArrayRuns ==
    UNION {RunsUnder(dataToUpload.keys[i], dataToUpload.vals[i]) :
               i \in 1..Len(dataToUpload.keys)}

StartsWith(name, path) ==
    Len(name) >= Len(path) /\ SubSeq(name, 1, Len(path)) = path

\* every element of the run that is to be encoded has a pair under
\* nameOf(its index), and every pair under the run's path is such a pair
RunNamed(formData, run, nameOf(_)) ==
    /\ \A i \in 1..Len(run.items) :
           IsCountedLeaf(run.items[i]) =>
               \E j \in 1..Len(formData) :
                   /\ formData[j].name = nameOf(i - 1)
                   /\ Carries(formData[j], run.items[i])
    /\ \A j \in 1..Len(formData) :
           StartsWith(formData[j].name, run.path) =>
               \E i \in 1..Len(run.items) :
                   /\ formData[j].name = nameOf(i - 1)
                   /\ Carries(formData[j], run.items[i])

-----------------------------------------------------------------------------
(* C4: default indexing.  As claimed: whenever the path of an array is not *)
(* in excludedIndexKeys, its element i (from 0) is encoded under           *)
(* path + "[" + i + "]".  Stated here for the arrays all of whose elements *)
(* are to be encoded (none is null, undefined or the empty string).        *)

AllCounted(items) == \A i \in 1..Len(items) : IsCountedLeaf(items[i])

C4Claimed(formData) ==
    \A run \in ArrayRuns :
        (run.path \notin ExcludedOf(excludedIndexKeys) /\ AllCounted(run.items)) =>
            LET nameOf(index) == Bracketed(run.path, <<ToString(index)>>)
            IN  RunNamed(formData, run, nameOf)

\* C4 as claimed, for both copies: element i under path[i]
C4_DefaultIndexing_Claimed ==
    /\ JsRan => C4Claimed(formDataJs)
    /\ TsRan => C4Claimed(formDataTs)

(* C4, amended: whenever the path of an array is not in excludedIndexKeys, *)
(* its element i (from 0) is encoded under path + "[" + i + "]" if the     *)
(* path is not the empty string, and under the bare index i if it is (the  *)
(* array is the value of the top-level key "").                            *)

C4Amended(formData) ==
    \A run \in ArrayRuns :
        run.path \notin ExcludedOf(excludedIndexKeys) =>
            LET nameOf(index) == IF run.path = <<>> THEN <<ToString(index)>>
                                 ELSE Bracketed(run.path, <<ToString(index)>>)
            IN  RunNamed(formData, run, nameOf)

\* C4 as amended, for both copies: path[i], or bare i under the empty path
C4_DefaultIndexing ==
    /\ JsRan => C4Amended(formDataJs)
    /\ TsRan => C4Amended(formDataTs)

C4_Witness ==
    /\ JsRan /\ TsRan
    /\ dataToUpload =
           Obj(<<<<"files">>, <<"metadata">>>>,
               <<Arr(<<File("f1"), File("f2")>>),
                 Obj(<<<<"titles">>>>, <<Arr(<<Str("Doc 1"), Str("Doc 2")>>)>>)>>)
    /\ excludedIndexKeys = [given |-> TRUE, list |-> {<<"files">>}]
    /\ formDataJs =
           <<FilePair(<<"files">>, "f1"), FilePair(<<"files">>, "f2"),
             TextPair(<<"metadata", "[", "titles", "]", "[", "0", "]">>, "Doc 1"),
             TextPair(<<"metadata", "[", "titles", "]", "[", "1", "]">>, "Doc 2")>>
    /\ formDataTs = formDataJs

-----------------------------------------------------------------------------
(* C5: nested mapping path construction.  For a mapping reached at a       *)
(* non-empty path p, the value of each key k2 is encoded under             *)
(* p + "[" + k2 + "]", in the order of the keys; the value of a top-level  *)
(* key is encoded under the bare key.                                      *)

\* mappings of leaves and the non-empty path at which each is reached
MappingRunsUnder(k, v) ==
    IF k = <<>> THEN {}
    ELSE IF IsMappingOfLeaves(v) THEN {[path |-> k, map |-> v, own |-> TRUE]}
    ELSE IF v.t = "object"
    THEN {[path |-> Bracketed(k, v.keys[j]), map |-> v.vals[j], own |-> TRUE] :
              j \in {j \in 1..Len(v.keys) : IsMappingOfLeaves(v.vals[j])}}
    ELSE IF v.t = "array"
    THEN {[path |-> IF k \in ExcludedOf(excludedIndexKeys) THEN k
                    ELSE Bracketed(k, <<ToString(j - 1)>>),
           map |-> v.items[j],
           own |-> k \notin ExcludedOf(excludedIndexKeys)] :
              j \in {j \in 1..Len(v.items) : IsMappingOfLeaves(v.items[j])}}
    ELSE {}

MappingRuns ==
    UNION {MappingRunsUnder(dataToUpload.keys[i], dataToUpload.vals[i]) :
               i \in 1..Len(dataToUpload.keys)}

PairOf(formData, j, name, leaf) ==
    formData[j].name = name /\ Carries(formData[j], leaf)

C5Holds(formData) ==
    /\ \A run \in MappingRuns :
           LET keys == run.map.keys
               vals == run.map.vals
               nameOf(i) == Bracketed(run.path, keys[i])
           IN  /\ \A i \in 1..Len(keys) :
                      IsCountedLeaf(vals[i]) =>
                          \E j \in 1..Len(formData) : PairOf(formData, j, nameOf(i), vals[i])
               /\ \A i1, i2 \in 1..Len(keys) :
                      (i1 < i2 /\ IsCountedLeaf(vals[i1]) /\ IsCountedLeaf(vals[i2])) =>
                          \E j1, j2 \in 1..Len(formData) :
                              /\ j1 < j2
                              /\ PairOf(formData, j1, nameOf(i1), vals[i1])
                              /\ PairOf(formData, j2, nameOf(i2), vals[i2])
               /\ run.own =>
                      \A j \in 1..Len(formData) :
                          StartsWith(formData[j].name, run.path) =>
                              \E i \in 1..Len(keys) : PairOf(formData, j, nameOf(i), vals[i])
    /\ \A i \in 1..Len(dataToUpload.keys) :
           IsCountedLeaf(dataToUpload.vals[i]) =>
               \E j \in 1..Len(formData) :
                   PairOf(formData, j, dataToUpload.keys[i], dataToUpload.vals[i])

\* C5 for both copies: key k2 of the mapping at p under p[k2], in key order
C5_NestedMappingPath ==
    /\ JsRan => C5Holds(formDataJs)
    /\ TsRan => C5Holds(formDataTs)

C5_Witness ==
    /\ JsRan /\ TsRan
    /\ dataToUpload =
           Obj(<<<<"user">>>>,
               <<Obj(<<<<"id">>, <<"role">>>>, <<Num(123), Str("admin")>>)>>)
    /\ formDataJs = <<TextPair(<<"user", "[", "id", "]">>, "123"),
                      TextPair(<<"user", "[", "role", "]">>, "admin")>>
    /\ formDataTs = formDataJs

-----------------------------------------------------------------------------
(* C6: field names under an excluded top-level key.  As claimed: whatever  *)
(* the input tree and the exclusion list, no field name that starts with a *)
(* top-level key present in excludedIndexKeys contains a numeric index     *)
(* segment, arrays reached through nested mappings or nested arrays under  *)
(* that key included.                                                      *)

IndexLexemes == {ToString(i) : i \in 0..(MaxLen + MaxOuterLen)}

HasIndexSegment(name) ==
    \E j \in 1..(Len(name) - 2) :
        name[j] = "[" /\ name[j + 1] \in IndexLexemes /\ name[j + 2] = "]"

C6Claimed(formData) ==
    \A i \in 1..Len(dataToUpload.keys) :
        dataToUpload.keys[i] \in ExcludedOf(excludedIndexKeys) =>
            \A j \in 1..Len(formData) :
                StartsWith(formData[j].name, dataToUpload.keys[i])
                    => ~HasIndexSegment(formData[j].name)

\* C6 as claimed, for both copies: no index segment under an excluded key
C6_NoIndexUnderExcludedKey_Claimed ==
    /\ JsRan => C6Claimed(formDataJs)
    /\ TsRan => C6Claimed(formDataTs)

(* C6, amended: every field name emitted for the value of a top-level key  *)
(* k present in excludedIndexKeys is k itself, with no index segment       *)
(* appended, provided that value contains no mapping: the arrays under the *)
(* key are its own array and the arrays nested in it through arrays only.  *)

RECURSIVE IsMappingFree(_)
IsMappingFree(v) ==
    /\ v.t # "object"
    /\ v.t = "array" => \A i \in 1..Len(v.items) : IsMappingFree(v.items[i])

\* the top-level key at position i is the only one the names under it start with
OwnsItsNames(i) == dataToUpload.keys[i] # <<>> \/ Len(dataToUpload.keys) = 1

C6Amended(formData) ==
    \A i \in 1..Len(dataToUpload.keys) :
        (/\ dataToUpload.keys[i] \in ExcludedOf(excludedIndexKeys)
         /\ IsMappingFree(dataToUpload.vals[i])
         /\ OwnsItsNames(i)) =>
            LET k == dataToUpload.keys[i]
                under == {j \in 1..Len(formData) : StartsWith(formData[j].name, k)}
                counted == SelectSeq(LeavesOf(dataToUpload.vals[i]), IsCountedLeaf)
            IN  /\ \A j \in under :
                       formData[j].name = k /\ ~HasIndexSegment(formData[j].name)
                /\ Cardinality(under) >= Len(counted)

\* C6 as amended, for both copies
C6_NoIndexUnderExcludedKey ==
    /\ JsRan => C6Amended(formDataJs)
    /\ TsRan => C6Amended(formDataTs)

C6_Witness ==
    /\ JsRan /\ TsRan
    /\ dataToUpload =
           Obj(<<<<"files">>>>, <<Arr(<<Arr(<<File("f1")>>), Arr(<<File("f1"), File("f1")>>)>>)>>)
    /\ excludedIndexKeys = [given |-> TRUE, list |-> {<<"files">>}]
    /\ formDataJs = <<FilePair(<<"files">>, "f1"), FilePair(<<"files">>, "f1"),
                      FilePair(<<"files">>, "f1")>>
    /\ formDataTs = formDataJs

-----------------------------------------------------------------------------
(* C7: immediate-path exclusion match.  The elements of an array lose      *)
(* their index exactly when the full path at which the array is reached is *)
(* a member of excludedIndexKeys: an array at "metadata[files]" keeps its  *)
(* indices under the exclusions {"files"}, and so does an array reached at *)
(* "files[x]" under the excluded top-level key "files".                    *)

C7Holds(formData) ==
    /\ \A run \in ArrayRuns :
           IF run.path \in ExcludedOf(excludedIndexKeys)
           THEN /\ \A i \in 1..Len(run.items) :
                       IsCountedLeaf(run.items[i]) =>
                           \E j \in 1..Len(formData) :
                               PairOf(formData, j, run.path, run.items[i])
                /\ run.own =>
                       \A j \in 1..Len(formData) :
                           StartsWith(formData[j].name, run.path)
                               => formData[j].name = run.path
           ELSE LET nameOf(index) == IF run.path = <<>> THEN <<ToString(index)>>
                                     ELSE Bracketed(run.path, <<ToString(index)>>)
                IN  /\ RunNamed(formData, run, nameOf)
                    /\ \A j \in 1..Len(formData) :
                           StartsWith(formData[j].name, run.path)
                               => formData[j].name # run.path
    /\ (/\ dataToUpload =
               Obj(<<<<"metadata">>>>, <<Obj(<<<<"files">>>>, <<Arr(<<File("f1"), File("f1")>>)>>)>>)
        /\ excludedIndexKeys = [given |-> TRUE, list |-> {<<"files">>}])
           => formData = <<FilePair(<<"metadata", "[", "files", "]", "[", "0", "]">>, "f1"),
                           FilePair(<<"metadata", "[", "files", "]", "[", "1", "]">>, "f1")>>
    /\ (/\ dataToUpload =
               Obj(<<<<"files">>>>, <<Obj(<<<<"x">>>>, <<Arr(<<File("f1"), File("f1")>>)>>)>>)
        /\ excludedIndexKeys = [given |-> TRUE, list |-> {<<"files">>}])
           => formData = <<FilePair(<<"files", "[", "x", "]", "[", "0", "]">>, "f1"),
                           FilePair(<<"files", "[", "x", "]", "[", "1", "]">>, "f1")>>

\* C7 for both copies: index lost exactly when the array's path is excluded
C7_ImmediatePathMatch ==
    /\ JsRan => C7Holds(formDataJs)
    /\ TsRan => C7Holds(formDataTs)

C7_Witness ==
    /\ JsRan /\ TsRan
    /\ dataToUpload =
           Obj(<<<<"files">>>>, <<Obj(<<<<"x">>>>, <<Arr(<<File("f1"), File("f1")>>)>>)>>)
    /\ excludedIndexKeys = [given |-> TRUE, list |-> {<<"files">>}]
    /\ formDataJs = <<FilePair(<<"files", "[", "x", "]", "[", "0", "]">>, "f1"),
                      FilePair(<<"files", "[", "x", "]", "[", "1", "]">>, "f1")>>
    /\ formDataTs = formDataJs

-----------------------------------------------------------------------------
(* C8: file blob atomicity.  A File, whether it is the value of a          *)
(* top-level key, the value of a key of a nested mapping or an element of  *)
(* a sequence, is appended as exactly one pair whose value is the file     *)
(* itself, and is never traversed key by key: the pairs that carry a file  *)
(* are, in order, the files of the input tree.                             *)

IsFile(v) == v.t = "file"
IsFilePair(pair) == pair.kind = "file"

C8Holds(formData) ==
    LET files == SelectSeq(LeavesOf(dataToUpload), IsFile)
        filePairs == SelectSeq(formData, IsFilePair)
    IN  /\ Len(filePairs) = Len(files)
        /\ \A i \in 1..Len(files) : filePairs[i].value = files[i].name

\* C8 for both copies: one pair for each File, carrying the file
C8_FileAtomicity ==
    /\ JsRan => C8Holds(formDataJs)
    /\ TsRan => C8Holds(formDataTs)

C8_Witness ==
    /\ JsRan /\ TsRan
    /\ dataToUpload =
           Obj(<<<<"file">>, <<"metadata">>, <<"files">>>>,
               <<File("f1"), Obj(<<<<"cover">>>>, <<File("f2")>>), Arr(<<File("f3")>>)>>)
    /\ excludedIndexKeys = [given |-> FALSE]
    /\ formDataJs = <<FilePair(<<"file">>, "f1"),
                      FilePair(<<"metadata", "[", "cover", "]">>, "f2"),
                      FilePair(<<"files", "[", "0", "]">>, "f3")>>
    /\ formDataTs = formDataJs

-----------------------------------------------------------------------------
(* C9: nil at any depth.  A null or undefined value emits no pair wherever *)
(* it occurs in the input tree, as an element of a sequence too:           *)
(* {tags: ["x", null, "y"]} emits only the pairs of "x" and "y".  Stated   *)
(* on the trees without an empty string: the pairs are as many as the      *)
(* leaves that are not null or undefined.                                  *)

IsNotNil(v) == ~IsNil(v)
IsNotEmptyString(v) == ~IsEmptyString(v)

C9Holds(formData) ==
    LET leaves == LeavesOf(dataToUpload)
    IN  /\ (\A i \in 1..Len(leaves) : ~IsEmptyString(leaves[i]))
               => Len(formData) = Len(SelectSeq(leaves, IsNotNil))
        /\ dataToUpload = Obj(<<<<"tags">>>>, <<Arr(<<Str("x"), Null, Str("y")>>)>>)
               => ValuesOf(formData) = <<<<"text", "x">>, <<"text", "y">>>>

\* C9 for both copies: null and undefined emit no pair at any depth
C9_NilAtAnyDepth ==
    /\ JsRan => C9Holds(formDataJs)
    /\ TsRan => C9Holds(formDataTs)

-----------------------------------------------------------------------------
(* C10: empty string at any depth.  An empty-string primitive emits no     *)
(* pair wherever it occurs, as an element of a sequence too, while 0 and   *)
(* false are emitted at every position.  Stated on the trees without null  *)
(* and undefined: the pairs are as many as the leaves that are not the     *)
(* empty string; and on every tree: each 0 and each false has its pair.    *)

IsZero(v) == v.t = "number" /\ v.n = 0
IsFalse(v) == v.t = "boolean" /\ v.b = FALSE
IsZeroPair(pair) == pair.kind = "text" /\ pair.value = "0"
IsFalsePair(pair) == pair.kind = "text" /\ pair.value = "false"

C10Holds(formData) ==
    LET leaves == LeavesOf(dataToUpload)
    IN  /\ (\A i \in 1..Len(leaves) : ~IsNil(leaves[i]))
               => Len(formData) = Len(SelectSeq(leaves, IsNotEmptyString))
        /\ Len(SelectSeq(formData, IsZeroPair)) = Len(SelectSeq(leaves, IsZero))
        /\ Len(SelectSeq(formData, IsFalsePair)) = Len(SelectSeq(leaves, IsFalse))

\* C10 for both copies: "" emits no pair at any depth, 0 and false do
C10_EmptyStringAtAnyDepth ==
    /\ JsRan => C10Holds(formDataJs)
    /\ TsRan => C10Holds(formDataTs)
-----------------------------------------------------------------------------
(* C11: output order.  The pairs are appended in depth-first traversal     *)
(* order: top-level keys in insertion order, mapping keys in insertion     *)
(* order, sequence elements in positional order; the pairs of a subtree    *)
(* are contiguous and precede the pairs of the next sibling.  The values   *)
(* of the pairs are the leaves of the tree in depth-first order, of which  *)
(* only a null, an undefined or an empty string may be missing, and the    *)
(* pairs under one top-level key all precede those under the next.         *)

\* what the pair of a leaf carries
CarriedBy(leaf) ==
    IF leaf.t = "file" THEN <<"file", leaf.name>> ELSE <<"text", String(leaf)>>

\* the pairs from the i-th on carry leaves[j..] without some leaves that
\* are not to be encoded
RECURSIVE InLeafOrder(_, _, _, _)
InLeafOrder(formData, leaves, i, j) ==
    IF j > Len(leaves) THEN i > Len(formData)
    ELSE \/ /\ i <= Len(formData)
            /\ <<formData[i].kind, formData[i].value>> = CarriedBy(leaves[j])
            /\ InLeafOrder(formData, leaves, i + 1, j + 1)
         \/ /\ ~IsCountedLeaf(leaves[j])
            /\ InLeafOrder(formData, leaves, i, j + 1)

\* the position of the top-level key under which the pair is
TopKeyOf(pair) ==
    CHOOSE i \in 1..Len(dataToUpload.keys) : StartsWith(pair.name, dataToUpload.keys[i])

C11Holds(formData) ==
    /\ LET leaves == LeavesOf(dataToUpload)
       IN  InLeafOrder(formData, leaves, 1, 1)
    /\ \A j \in 1..(Len(formData) - 1) :
           TopKeyOf(formData[j]) <= TopKeyOf(formData[j + 1])

\* C11 for both copies: the pairs are in depth-first traversal order
C11_OutputOrder ==
    /\ JsRan => C11Holds(formDataJs)
    /\ TsRan => C11Holds(formDataTs)

C11_Witness ==
    /\ JsRan /\ TsRan
    /\ dataToUpload =
           Obj(<<<<"files">>, <<"metadata">>, <<"timestamp">>, <<"user">>>>,
               <<Arr(<<File("f1"), File("f2")>>),
                 Obj(<<<<"department">>, <<"tags">>>>,
                     <<Str("HR"), Arr(<<Str("confidential"), Str("employee")>>)>>),
                 Str("2024-02-23T10:00:00.000Z"),
                 Obj(<<<<"id">>, <<"role">>>>, <<Num(123), Str("admin")>>)>>)
    /\ excludedIndexKeys = [given |-> TRUE, list |-> {<<"files">>}]
    /\ formDataJs =
           <<FilePair(<<"files">>, "f1"), FilePair(<<"files">>, "f2"),
             TextPair(<<"metadata", "[", "department", "]">>, "HR"),
             TextPair(<<"metadata", "[", "tags", "]", "[", "0", "]">>, "confidential"),
             TextPair(<<"metadata", "[", "tags", "]", "[", "1", "]">>, "employee"),
             TextPair(<<"timestamp">>, "2024-02-23T10:00:00.000Z"),
             TextPair(<<"user", "[", "id", "]">>, "123"),
             TextPair(<<"user", "[", "role", "]">>, "admin")>>
    /\ formDataTs = formDataJs
-----------------------------------------------------------------------------
(* C12: never raises.  For every input tree whose root is a mapping (any   *)
(* nesting of mappings, sequences, files, primitives, null and undefined,  *)
(* empty mappings and empty sequences included) and every exclusion list,  *)
(* an absent one included, the encoder completes without throwing.         *)

IsWellTypedInput ==
    /\ dataToUpload.t = "object"
    /\ ~IsNullList(excludedIndexKeys)

\* C12 for both copies: no TypeError on a well-typed input
C12_NeverRaises ==
    IsWellTypedInput => (pcJs # "threw" /\ pcTs # "threw")

C12_Witness ==
    /\ JsRan /\ TsRan
    /\ dataToUpload =
           Obj(<<<<"files">>>>,
               <<Arr(<<Arr(<<File("f1"), Null>>), Obj(<<>>, <<>>)>>)>>)
    /\ excludedIndexKeys = [given |-> FALSE]

\* the encoder does raise on an ill-typed exclusion list
C12_RaiseReached ==
    /\ pcJs = "threw" /\ pcTs = "threw"
    /\ IsNullList(excludedIndexKeys)
-----------------------------------------------------------------------------
(* The hooks around the encoder: the Authorization header, the API adapter *)
(* (ActionHandler and APIHandler, a JavaScript and a TypeScript copy) and  *)
(* the transport outcomes the adapter maps.                                *)

\* the value of a property read: v[key], undefined when v has no such key
Get(v, key) ==
    IF v.t = "object" /\ \E i \in 1..Len(v.keys) : v.keys[i] = key
    THEN v.vals[CHOOSE i \in 1..Len(v.keys) : v.keys[i] = key]
    ELSE Undefined

\* the truth value of v in a condition, v || w, v ? a : b
Truthy(v) ==
    CASE v.t \in {"null", "undefined"} -> FALSE
      [] v.t = "string" -> v.s # ""
      [] v.t = "number" -> v.n # 0
      [] v.t = "boolean" -> v.b
      [] OTHER -> TRUE

NoHeaders == Obj(<<>>, <<>>)

\* headersFor that sends the token without the scheme
headersFor_RawToken(cookies) ==
    IF Truthy(Get(cookies, <<"accessToken">>))
    THEN Obj(<<<<"Authorization">>>>, <<Str(String(Get(cookies, <<"accessToken">>)))>>)
    ELSE NoHeaders

\* let headers = {}; if (cookie?.accessToken) headers = { Authorization: ... }
headersFor(cookies) ==
    IF ~IsNil(cookies) /\ Truthy(Get(cookies, <<"accessToken">>))
    THEN Obj(<<<<"Authorization">>>>,
             <<Str("Bearer " \o String(Get(cookies, <<"accessToken">>)))>>)
    ELSE NoHeaders

\* the request axios is asked to send: axios.get has no body
Request(method, hasBody, body, headers) ==
    [method |-> method, hasBody |-> hasBody, body |-> body, headers |-> headers]

NoRequest == [method |-> "none", hasBody |-> FALSE, body |-> Undefined, headers |-> NoHeaders]

\* ActionHandler: the request it hands to axios, or the Error it throws
ActionHandler(action, data, headers) ==
    CASE action = "GET" -> [threw |-> FALSE, request |-> Request("GET", FALSE, Undefined, headers)]
      [] action = "POST" -> [threw |-> FALSE, request |-> Request("POST", TRUE, data, headers)]
      [] action = "PUT" -> [threw |-> FALSE, request |-> Request("PUT", TRUE, data, headers)]
      [] action = "DELETE" -> [threw |-> FALSE, request |-> Request("DELETE", TRUE, data, headers)]
      [] OTHER -> [threw |-> TRUE, request |-> NoRequest]

\* what awaiting ActionHandler gives: a response, an error of axios (with
\* or without a response), or some other exception
Response(status, data) ==
    [kind |-> "response", message |-> "", hasResponse |-> TRUE, status |-> status, data |-> data]
AxiosError(message) ==
    [kind |-> "axiosError", message |-> message, hasResponse |-> FALSE, status |-> 0, data |-> Undefined]
AxiosErrorWith(message, status, data) ==
    [kind |-> "axiosError", message |-> message, hasResponse |-> TRUE, status |-> status, data |-> data]
Exception(message) ==
    [kind |-> "exception", message |-> message, hasResponse |-> FALSE, status |-> 0, data |-> Undefined]

\* the result object of APIHandler; an absent field reads as undefined
Result(status, data, message, error, statusCode, type) ==
    [settled |-> "resolved", status |-> status, data |-> data, message |-> message,
     error |-> error, statusCode |-> statusCode, type |-> type]

\* APIHandler rejects: an exception left its catch block
Rejection(name) ==
    [settled |-> "rejected", status |-> FALSE, data |-> Undefined, message |-> Str(name),
     error |-> Undefined, statusCode |-> Undefined, type |-> Undefined]

ApiFailed(statusCode) ==
    Result(FALSE, Undefined, Str("API Failed"), Str("API Failed"), statusCode, Undefined)

NetworkError ==
    Result(FALSE, Undefined, Str("Network Error"), Str("Network Error"), Undefined, Undefined)

\* v || "API Failed"
OrApiFailed(v) == IF Truthy(v) THEN v ELSE Str("API Failed")

\* APIHandler of apiHandler.js, from the outcome of ActionHandler on
APIHandlerJs(outcome) ==
    CASE outcome.kind = "response" ->
             IF outcome.status >= 200 /\ outcome.status <= 299
             THEN IF IsNil(outcome.data)
                  THEN ApiFailed(Undefined)   \* response.data.message throws, caught
                  ELSE Result(TRUE, outcome.data, Get(outcome.data, <<"message">>),
                              Undefined, Num(outcome.status), Undefined)
             ELSE ApiFailed(Num(outcome.status))
      [] outcome.kind = "axiosError" ->
             IF outcome.message = "Network Error" THEN NetworkError
             ELSE IF ~outcome.hasResponse
             THEN Result(FALSE, Undefined, Undefined, Undefined, Undefined, Undefined)
             ELSE IF IsNil(outcome.data)
             THEN Rejection("TypeError")      \* e.response?.data.message throws
             ELSE Result(FALSE, Undefined, Get(outcome.data, <<"message">>),
                         Get(outcome.data, <<"error">>), Num(outcome.status),
                         Get(outcome.data, <<"type">>))
      [] OTHER -> ApiFailed(Undefined)

\* APIHandler of the TypeScript copy
APIHandlerTs(outcome) ==
    CASE outcome.kind = "response" ->
             IF outcome.status >= 200 /\ outcome.status <= 299
             THEN IF IsNil(outcome.data)
                  THEN ApiFailed(Undefined)
                  ELSE Result(TRUE, outcome.data, Get(outcome.data, <<"message">>),
                              Undefined, Num(outcome.status), Undefined)
             ELSE ApiFailed(Num(outcome.status))
      [] outcome.kind = "axiosError" ->
             IF outcome.message = "Network Error" THEN NetworkError
             ELSE IF ~outcome.hasResponse
             THEN Result(FALSE, Undefined, Str("API Failed"), Str("API Failed"),
                         Undefined, Undefined)
             ELSE Result(FALSE, Undefined,
                         OrApiFailed(IF IsNil(outcome.data) THEN Undefined
                                     ELSE Get(outcome.data, <<"message">>)),
                         OrApiFailed(IF IsNil(outcome.data) THEN Undefined
                                     ELSE Get(outcome.data, <<"error">>)),
                         Num(outcome.status),
                         IF IsNil(outcome.data) THEN Undefined
                         ELSE Get(outcome.data, <<"type">>))
      [] OTHER -> ApiFailed(Undefined)

APIHandler(c, outcome) ==
    IF c = "js" THEN APIHandlerJs(outcome) ELSE APIHandlerTs(outcome)

\* the bodies a server answers a mutation or a query with
OkBody == Obj(<<<<"message">>>>, <<Str("ok")>>)
BadBody == Obj(<<<<"message">>, <<"error">>, <<"type">>>>, <<Str("bad"), Str("E42"), Str("validation")>>)
EmptyMessageBody == Obj(<<<<"message">>>>, <<Str("")>>)

\* outcomes of a request that was sent
TransportOutcomes ==
    {Response(200, OkBody), Response(200, Null), Response(300, OkBody),
     AxiosError("Network Error"),
     AxiosErrorWith("Request failed with status code 500", 500, BadBody),
     AxiosErrorWith("Request failed with status code 500", 500, EmptyMessageBody),
     AxiosErrorWith("Request failed with status code 500", 500, Null)}

\* the outcome when ActionHandler throws before any request
InvalidAction == Exception("Invalid action")

\* outcomes of the request of a mutation: axios with its default
\* validateStatus resolves with a 2xx response only
MutationOutcomes == TransportOutcomes \ {Response(300, OkBody)}

-----------------------------------------------------------------------------
(* useGlobalMutation: runMutation starts a run of mutationFn, which builds *)
(* the payload, sends the request and awaits APIHandler; the run then      *)
(* returns or throws, and React Query calls onSuccess or onError.          *)

MaxRuns == 2        \* most runs started by runMutation

\* the FormData objects after a `new FormData()` that hands out the last
\* one again
newFormData_Reused(objects) ==
    IF objects = <<>> THEN <<<<>>>> ELSE objects

\* the FormData objects after a `new FormData()` whose object starts with
\* the entries of the last one
newFormData_Carried(objects) ==
    Append(objects, IF objects = <<>> THEN <<>> ELSE objects[Len(objects)])

\* the FormData objects after `new FormData()`: the new one is the last
newFormData(objects) == Append(objects, <<>>)

FormDataRef(id) == [t |-> "formdata", id |-> id]

\* the payload is priorityData whenever one is passed
choosePayload_WhenGiven(args, data) ==
    IF ~IsNil(args.priorityData) THEN args.priorityData ELSE data

\* const dataToUpload = isPriorityDataAvailable ? priorityData : data
choosePayload(args, data) ==
    IF Truthy(args.isPriorityDataAvailable) THEN args.priorityData ELSE data

\* the message is dropped
thrownMessage_Generic(message) == "Something went wrong!"

\* new Error(message || "Something went wrong!").message
thrownMessage(message) ==
    IF Truthy(message) THEN String(message) ELSE "Something went wrong!"

\* closePopup first
onSuccessCalls_PopupFirst(closePopup) ==
    (IF closePopup THEN <<"closePopup(false)">> ELSE <<>>) \o <<"invalidateQueries">>

\* onSuccess: invalidateQueries, then closePopup(false) when one was given
onSuccessCalls(closePopup) ==
    <<"invalidateQueries">> \o (IF closePopup THEN <<"closePopup(false)">> ELSE <<>>)

\* onError also invalidates
onErrorCalls_Invalidate == <<"console", "invalidateQueries">>

\* onError: logs the message
onErrorCalls == <<"console">>

\* the loop over the top-level keys can throw
mutationFnRaises(c, payload, options) ==
    IF c = "js" THEN EncodeRaisesJs(payload, options) ELSE EncodeRaisesTs(payload, options)

\* the entries the loop over the top-level keys adds to a FormData
mutationFnEncode(c, formData, payload, options) ==
    IF c = "js" THEN forEachTopKeyJs(formData, payload, 1, options)
    ELSE forEachTopKeyTs(formData, IF Truthy(payload) THEN payload ELSE Obj(<<>>, <<>>), 1, options)

NoResult == Rejection("none")
NoValue == [kind |-> "none", value |-> Undefined, message |-> ""]
Returned(value) == [kind |-> "returned", value |-> value, message |-> ""]
Threw(name, message) == [kind |-> "threw", value |-> Str(name), message |-> message]

\* the arguments of runMutation, as mutationFn receives them
MutateArgs(flag, priorityData) ==
    [isPriorityDataAvailable |-> flag, priorityData |-> priorityData]

DefaultData ==
    Obj(<<<<"title">>, <<"tags">>>>, <<Str("x"), Arr(<<Str("a"), Str("b")>>)>>)
PriorityData == Obj(<<<<"title">>>>, <<Str("y")>>)

\* runMutation(), ({isPriorityDataAvailable: true, priorityData}),
\* ({isPriorityDataAvailable: false, priorityData}), ({priorityData})
RunArguments ==
    {MutateArgs(Undefined, Undefined), MutateArgs(Bool(TRUE), PriorityData),
     MutateArgs(Bool(FALSE), PriorityData), MutateArgs(Undefined, PriorityData)}

MutationParams(methodType, isFormData, data, closePopup) ==
    [methodType |-> methodType, isFormData |-> isFormData, data |-> data,
     closePopup |-> closePopup]

NoCookie == Obj(<<>>, <<>>)
EmptyCookie == Obj(<<<<"accessToken">>>>, <<Str("")>>)
TokenCookie == Obj(<<<<"accessToken">>>>, <<Str("tok")>>)
Cookies == {NoCookie, EmptyCookie, TokenCookie}

EncoderUnused ==
    /\ dataToUpload = Obj(<<>>, <<>>)
    /\ formDataJs = <<>>
    /\ formDataTs = <<>>
    /\ pcJs = "unused"
    /\ pcTs = "unused"

\* a component that calls useGlobalMutation
MutationInit ==
    /\ hook = "mutation"
    /\ api = [pc |-> "unused"]
    /\ copy \in {"js", "ts"}
    /\ \/ /\ params = MutationParams("POST", Bool(TRUE), DefaultData, TRUE)
          /\ cookie = TokenCookie
          /\ excludedIndexKeys = [given |-> TRUE, list |-> {<<"tags">>}]
       \/ /\ params = MutationParams("DELETE", Bool(FALSE), DefaultData, FALSE)
          /\ cookie = NoCookie
          /\ excludedIndexKeys = [given |-> FALSE]
       \/ /\ params = MutationParams("PATCH", Undefined, Undefined, FALSE)
          /\ cookie = TokenCookie
          /\ excludedIndexKeys = [given |-> FALSE]
       \/ /\ params = MutationParams("POST", Bool(TRUE), Undefined, FALSE)
          /\ cookie = EmptyCookie
          /\ excludedIndexKeys = [given |-> FALSE]
    /\ heap = <<>>
    /\ runs = <<>>
    /\ query = [pc |-> "unmounted"]
    /\ infinite = [pc |-> "unmounted"]

\* runMutation(args): mutate starts mutationFn, which runs up to its await
RunMutation(args) ==
    /\ hook = "mutation"
    /\ Len(runs) < MaxRuns
    /\ LET payload == choosePayload(args, params.data)
           objects == newFormData(heap)
           id == Len(objects)
           raises == mutationFnRaises(copy, payload, excludedIndexKeys)
           filled == [objects EXCEPT ![id] =
                          mutationFnEncode(copy, objects[id], payload, excludedIndexKeys)]
           body == IF Truthy(params.isFormData) THEN FormDataRef(id) ELSE payload
           call == ActionHandler(params.methodType, body, headersFor(cookie))
           run == [args |-> args, dataToUpload |-> payload, fd |-> 0,
                   request |-> NoRequest, wire |-> <<>>, pc |-> "awaiting",
                   result |-> NoResult, outcome |-> NoValue, events |-> <<>>]
       IN  IF Truthy(params.isFormData) /\ raises
           THEN /\ heap' = objects
                /\ runs' = Append(runs, [run EXCEPT !.fd = id, !.pc = "rejected",
                                             !.outcome = Threw("TypeError", "")])
           ELSE /\ heap' = IF Truthy(params.isFormData) THEN filled ELSE heap
                /\ runs' = Append(runs,
                       [run EXCEPT !.fd = IF Truthy(params.isFormData) THEN id ELSE 0,
                                   !.request = call.request,
                                   !.wire = IF Truthy(params.isFormData) /\ ~call.threw
                                            THEN filled[id] ELSE <<>>,
                                   !.events = IF call.threw THEN <<>> ELSE <<"request">>])
    /\ UNCHANGED <<encoderVars, excludedIndexKeys, hook, api, copy, cookie, params, query, infinite>>

\* the request of run i ends (or ActionHandler threw): APIHandler maps the
\* outcome to its result and mutationFn returns or throws
MutationRespond(i, outcome) ==
    /\ hook = "mutation"
    /\ i \in 1..Len(runs)
    /\ runs[i].pc = "awaiting"
    /\ IF runs[i].request = NoRequest THEN outcome = InvalidAction
       ELSE outcome \in MutationOutcomes
    /\ LET result == APIHandler(copy, outcome)
           events == runs[i].events \o <<"response">>
       IN  runs' = [runs EXCEPT ![i] =
               IF result.settled = "rejected"
               THEN [@ EXCEPT !.pc = "rejected", !.events = events,
                              !.outcome = Threw(String(result.message), "")]
               ELSE IF result.status
               THEN [@ EXCEPT !.pc = "resolved", !.result = result, !.events = events,
                              !.outcome = Returned(result.data)]
               ELSE [@ EXCEPT !.pc = "rejected", !.result = result, !.events = events,
                              !.outcome = Threw("Error", thrownMessage(result.message))]]
    /\ UNCHANGED <<encoderVars, excludedIndexKeys, hook, api, copy, cookie, params, heap, query, infinite>>

\* onSuccess of run i
OnSuccess(i) ==
    /\ hook = "mutation"
    /\ i \in 1..Len(runs)
    /\ runs[i].pc = "resolved"
    /\ runs' = [runs EXCEPT ![i].pc = "settled",
                            ![i].events = @ \o onSuccessCalls(params.closePopup)]
    /\ UNCHANGED <<encoderVars, excludedIndexKeys, hook, api, copy, cookie, params, heap, query, infinite>>

\* onError of run i
OnError(i) ==
    /\ hook = "mutation"
    /\ i \in 1..Len(runs)
    /\ runs[i].pc = "rejected"
    /\ runs' = [runs EXCEPT ![i].pc = "settled",
                            ![i].events = @ \o onErrorCalls]
    /\ UNCHANGED <<encoderVars, excludedIndexKeys, hook, api, copy, cookie, params, heap, query, infinite>>

RunMutationStep == \E args \in RunArguments : RunMutation(args)
MutationRespondStep ==
    \E i \in 1..MaxRuns, outcome \in MutationOutcomes \cup {InvalidAction} :
        MutationRespond(i, outcome)
OnSuccessStep == \E i \in 1..MaxRuns : OnSuccess(i)
OnErrorStep == \E i \in 1..MaxRuns : OnError(i)

MutationNext == RunMutationStep \/ MutationRespondStep \/ OnSuccessStep \/ OnErrorStep

InitMutation == EncoderUnused /\ MutationInit
SpecMutation == InitMutation /\ [][MutationNext]_vars

-----------------------------------------------------------------------------
(* C13: determinism.  Two runs of the encoder on structurally identical    *)
(* input trees with the same exclusion set, each starting from a fresh     *)
(* FormData, produce identical pair sequences in the same order: the       *)
(* result depends on nothing but the input tree and the exclusion set.     *)

\* run i encoded its payload and sent the FormData
Encoded(i) ==
    /\ i \in 1..Len(runs)
    /\ Truthy(params.isFormData)
    /\ runs[i].request # NoRequest

-----------------------------------------------------------------------------
(* C14: frame.  Encoding leaves the input data tree and excludedIndexKeys  *)
(* unchanged; the only state it changes is the FormData created for that   *)
(* one mutationFn call, so two mutation calls never share or affect each   *)
(* other's output.                                                         *)

\* no two runs hold the same FormData object
NoSharedFormData ==
    \A i, j \in 1..Len(runs) :
        (i # j /\ runs[i].fd # 0 /\ runs[j].fd # 0) => runs[i].fd # runs[j].fd

\* C14: a step leaves the hook's data, excludedIndexKeys, every earlier
\* run's arguments and payload and every FormData object that existed
\* before it as they were, and never gives two runs one FormData
C14_Frame ==
    [][/\ params' = params
       /\ excludedIndexKeys' = excludedIndexKeys
       /\ \A i \in 1..Len(runs) :
              /\ runs'[i].args = runs[i].args
              /\ runs'[i].dataToUpload = runs[i].dataToUpload
              /\ runs'[i].fd = runs[i].fd
       /\ \A id \in 1..Len(heap) : heap'[id] = heap[id]
       /\ NoSharedFormData']_vars

C14_Witness ==
    /\ Len(runs) = 2
    /\ runs[1].pc = "awaiting" /\ runs[2].pc = "awaiting"
    /\ runs[1].fd = 1 /\ runs[2].fd = 2
    /\ heap[1] # <<>> /\ heap[2] # <<>> /\ heap[1] # heap[2]
    /\ params.data = DefaultData

-----------------------------------------------------------------------------
(* C15: invalidation after success.  For every mutation run,               *)
(* queryClient.invalidateQueries is called exactly once if and only if the *)
(* mutation function resolved (API result status true); it happens after   *)
(* the API response and before closePopup(false); neither invalidation nor *)
(* closePopup happens when the mutation fails.                             *)

RECURSIVE CountOf(_, _)
CountOf(events, e) ==
    IF events = <<>> THEN 0
    ELSE (IF events[1] = e THEN 1 ELSE 0) + CountOf(Tail(events), e)

\* the position of the first e in events, 0 when there is none
PositionOf(events, e) ==
    IF \E k \in 1..Len(events) : events[k] = e
    THEN CHOOSE k \in 1..Len(events) :
             events[k] = e /\ \A l \in 1..(k - 1) : events[l] # e
    ELSE 0

C15Holds(run) ==
    LET invalidated == CountOf(run.events, "invalidateQueries")
        closed == CountOf(run.events, "closePopup(false)")
        resolved == run.outcome.kind = "returned"
    IN  /\ invalidated <= 1 /\ closed <= 1
        /\ resolved <=> (run.result.settled = "resolved" /\ run.result.status)
        /\ run.pc = "settled" => (invalidated = 1 <=> resolved)
        /\ invalidated = 1 =>
               /\ resolved
               /\ PositionOf(run.events, "response") > 0
               /\ PositionOf(run.events, "response")
                      < PositionOf(run.events, "invalidateQueries")
        /\ closed = 1 =>
               /\ invalidated = 1
               /\ PositionOf(run.events, "invalidateQueries")
                      < PositionOf(run.events, "closePopup(false)")
        /\ (run.pc = "settled" /\ resolved /\ params.closePopup) => closed = 1
        /\ run.outcome.kind = "threw" => (invalidated = 0 /\ closed = 0)

\* C15 for every run started so far
C15_InvalidationAfterSuccess ==
    \A i \in 1..Len(runs) : C15Holds(runs[i])

C15_Witness ==
    /\ Len(runs) = 2
    /\ runs[1].pc = "settled" /\ runs[2].pc = "settled"
    /\ runs[1].events = <<"request", "response", "invalidateQueries", "closePopup(false)">>
    /\ runs[2].outcome.kind = "threw"
    /\ runs[2].events = <<"request", "response", "console">>

-----------------------------------------------------------------------------
(* C16: mutation failure reporting.  Whenever the API result of a mutation *)
(* has status false (non-2xx, network error, transport error or invalid    *)
(* method), the mutation function throws an Error whose message is the API *)
(* result's message, or "Something went wrong!" when that message is empty *)
(* or absent; it returns the response data only when status is true.  This *)
(* holds on both the FormData and the plain-data branch.                   *)

\* APIHandler gave run its result
HasResult(run) == run.result.settled = "resolved"

MessageIsEmptyOrAbsent(result) ==
    \/ result.message.t \in {"undefined", "null"}
    \/ result.message.t = "string" /\ result.message.s = ""

C16Holds(run) ==
    /\ (HasResult(run) /\ ~run.result.status) =>
           /\ run.outcome.kind = "threw"
           /\ run.outcome.value = Str("Error")
           /\ IF MessageIsEmptyOrAbsent(run.result)
              THEN run.outcome.message = "Something went wrong!"
              ELSE /\ run.result.message.t = "string"
                   /\ run.outcome.message = run.result.message.s
    /\ run.outcome.kind = "returned" =>
           /\ HasResult(run) /\ run.result.status
           /\ run.outcome.value = run.result.data
    /\ (HasResult(run) /\ run.result.status) => run.outcome.kind = "returned"

\* C16 for every run, of either copy, on either branch
C16_MutationFailureReporting ==
    \A i \in 1..Len(runs) : C16Holds(runs[i])

C16_Witness ==
    /\ copy = "js"
    /\ Truthy(params.isFormData)
    /\ Len(runs) = 2
    /\ runs[1].result = Result(FALSE, Undefined, Str(""), Undefined, Num(500), Undefined)
    /\ runs[1].outcome = Threw("Error", "Something went wrong!")
    /\ runs[2].result.message = Str("bad")
    /\ runs[2].outcome = Threw("Error", "bad")

\* the same on the plain-data branch, for an invalid method and a network error
C16_PlainBranchReached ==
    /\ ~Truthy(params.isFormData)
    /\ \E i \in 1..Len(runs) :
           /\ runs[i].request = NoRequest
           /\ runs[i].outcome = Threw("Error", "API Failed")

-----------------------------------------------------------------------------
(* C17: priority data.  The payload of a mutation run is priorityData when *)
(* runMutation is called with isPriorityDataAvailable true, and the hook's *)
(* default data in every other case (no arguments, flag false or absent,   *)
(* or priorityData given without the flag); the choice is made per run and *)
(* does not change the default data of later runs.                         *)

ExpectedPayload(run) ==
    IF run.args.isPriorityDataAvailable = Bool(TRUE)
    THEN run.args.priorityData
    ELSE params.data

C17Holds(run) ==
    /\ run.dataToUpload = ExpectedPayload(run)
    /\ (~Truthy(params.isFormData) /\ run.request # NoRequest) =>
           run.request.body = ExpectedPayload(run)
    /\ (Truthy(params.isFormData) /\ run.request # NoRequest) =>
           /\ run.request.body = FormDataRef(run.fd)
           /\ (ExpectedPayload(run) = PriorityData) =>
                  run.wire = <<[name |-> <<"title">>, kind |-> "text", value |-> "y"]>>
           /\ (ExpectedPayload(run) = DefaultData) => Len(run.wire) = 3

C17AllRuns == \A i \in 1..Len(runs) : C17Holds(runs[i])

\* C17: after every step each run has the payload its own arguments
\* select, and the step left the hook's default data as it was
C17_PriorityData ==
    [][C17AllRuns' /\ params'.data = params.data]_vars

C17_Witness ==
    /\ Len(runs) = 2
    /\ params.data = DefaultData
    /\ ~Truthy(params.isFormData)
    /\ runs[1].args = MutateArgs(Bool(TRUE), PriorityData)
    /\ runs[1].request.body = PriorityData
    /\ runs[2].args = MutateArgs(Undefined, PriorityData)
    /\ runs[2].request.body = DefaultData

-----------------------------------------------------------------------------
(* useGlobalQuery: React Query calls queryFn when the query mounts and     *)
(* when refetchQuery invalidates it; the query succeeds with what queryFn  *)
(* returns and is in error when queryFn throws.  The TypeScript copy is    *)
(* src/src/hooks/useGlobalQuery.ts; the JavaScript copies never import     *)
(* APIHandler, so their queryFn throws a ReferenceError before any request.*)

MaxFetches == 2     \* most calls of queryFn for one query

\* queryFn that throws on a failed result, as mutationFn does
queryFnOutcome_ThrowOnFailure(result) ==
    IF result.settled = "rejected" THEN Threw(String(result.message), "")
    ELSE IF ~result.status THEN Threw("Error", thrownMessage(result.message))
    ELSE IF Truthy(result.data) THEN Returned(result.data)
    ELSE Returned(Obj(<<<<"totalCount">>, <<"data">>>>, <<Num(0), Arr(<<>>)>>))

\* queryFn after await APIHandler: response?.data, or the empty list; an
\* exception of APIHandler is logged and thrown again
queryFnOutcome(result) ==
    IF result.settled = "rejected" THEN Threw(String(result.message), "")
    ELSE IF Truthy(result.data) THEN Returned(result.data)
    ELSE Returned(Obj(<<<<"totalCount">>, <<"data">>>>, <<Num(0), Arr(<<>>)>>))

QueryParams(methodType, data) == [methodType |-> methodType, data |-> data]

QueryData == Obj(<<<<"search">>>>, <<Str("q")>>)

NoOutcome == Exception("none")

\* a component that calls useGlobalQuery
QueryInit ==
    /\ hook = "query"
    /\ api = [pc |-> "unused"]
    /\ copy \in {"js", "ts"}
    /\ params \in {QueryParams(m, d) : m \in {"GET", "POST", "PUT", "DELETE", "PATCH"},
                                       d \in {Undefined, QueryData}}
    /\ cookie \in Cookies
    /\ excludedIndexKeys = [given |-> FALSE]
    /\ heap = <<>>
    /\ runs = <<>>
    /\ query = [pc |-> "idle", fetches |-> 0, request |-> NoRequest,
                outcome |-> NoOutcome, data |-> Undefined, error |-> NoValue,
                isError |-> FALSE]
    /\ infinite = [pc |-> "unmounted"]

\* the query mounts, or refetchQuery invalidates it: queryFn runs up to
\* its await
QueryFetch ==
    /\ hook = "query"
    /\ query.pc \in {"idle", "success", "error"}
    /\ query.fetches < MaxFetches
    /\ LET call == ActionHandler(params.methodType, params.data, headersFor(cookie))
       IN  query' = IF copy = "js"
                    THEN [query EXCEPT !.pc = "error", !.fetches = @ + 1,
                                       !.request = NoRequest, !.outcome = NoOutcome,
                                       !.error = Threw("ReferenceError", ""),
                                       !.isError = TRUE]
                    ELSE [query EXCEPT !.pc = "fetching", !.fetches = @ + 1,
                                       !.request = call.request, !.outcome = NoOutcome]
    /\ UNCHANGED <<encoderVars, excludedIndexKeys, hook, api, copy, cookie, params, heap, runs, infinite>>

\* the request ends (or ActionHandler threw): queryFn returns or throws
\* and the query takes the result
QueryRespond(outcome) ==
    /\ hook = "query"
    /\ query.pc = "fetching"
    /\ IF query.request = NoRequest THEN outcome = InvalidAction
       ELSE outcome \in TransportOutcomes
    /\ LET settled == queryFnOutcome(APIHandler(copy, outcome))
       IN  query' = IF settled.kind = "returned"
                    THEN [query EXCEPT !.pc = "success", !.outcome = outcome,
                                       !.data = settled.value, !.error = NoValue,
                                       !.isError = FALSE]
                    ELSE [query EXCEPT !.pc = "error", !.outcome = outcome,
                                       !.error = settled, !.isError = TRUE]
    /\ UNCHANGED <<encoderVars, excludedIndexKeys, hook, api, copy, cookie, params, heap, runs, infinite>>

QueryRespondStep ==
    \E outcome \in TransportOutcomes \cup {InvalidAction} : QueryRespond(outcome)

QueryNext == QueryFetch \/ QueryRespondStep

InitQuery == EncoderUnused /\ QueryInit
SpecQuery == InitQuery /\ [][QueryNext]_vars

-----------------------------------------------------------------------------
(* C19: query error state.  When the API request made by useGlobalQuery    *)
(* fails (non-2xx response, network error, transport error or invalid      *)
(* method), the query function rejects, so the query reports isError true  *)
(* and error carries the failure, rather than resolving with data.         *)

\* the last request failed: anything but a response with a 2xx status
RequestFailed(outcome) ==
    ~(outcome.kind = "response" /\ outcome.status >= 200 /\ outcome.status <= 299)

\* C19: once queryFn has finished after a failed request, the query is in
\* error and carries the failure
C19_QueryErrorState ==
    (hook = "query" /\ query.pc \in {"success", "error"}
        /\ RequestFailed(query.outcome))
    => (query.pc = "error" /\ query.isError /\ query.error.kind = "threw")

\* the failed request is reached: a 500 answered with a message
C19_FailureReached ==
    /\ hook = "query" /\ copy = "ts"
    /\ query.outcome = AxiosErrorWith("Request failed with status code 500", 500, BadBody)
    /\ query.pc = "success"
    /\ ~query.isError
    /\ query.data = Obj(<<<<"totalCount">>, <<"data">>>>, <<Num(0), Arr(<<>>)>>)

-----------------------------------------------------------------------------
(* useGlobalInfiniteQuery: React Query calls queryFn with the initial page *)
(* parameter when the query mounts and, on fetchNextPage, with what        *)
(* getNextPageParam gives for the last page, if that is defined.  The      *)
(* JavaScript copy is src/src/hooks/useGlobalInfiniteQuery.js (no initial  *)
(* page parameter), the TypeScript copy src/unnamed/part_002.              *)

MaxTotalPages == 2  \* most pages the server has
MaxRequests == 4    \* most calls of queryFn for one infinite query

\* a < b on numbers; a comparison with undefined is false
LessThan(a, b) == a.t = "number" /\ b.t = "number" /\ a.n < b.n

\* a + 1 on a number
PlusOne(a) == IF a.t = "number" THEN Num(a.n + 1) ELSE Undefined

\* the last page counts as having a successor
hasMoreOf_Inclusive(page, totalPages) ==
    page.t = "number" /\ totalPages.t = "number" /\ page.n <= totalPages.n

\* const hasMore = page < totalPages
hasMoreOf(page, totalPages) == LessThan(page, totalPages)

\* what queryFn returns for one page
PageResult(data, nextPage, hasMore, totalCount) ==
    [data |-> data, nextPage |-> nextPage, hasMore |-> hasMore, totalCount |-> totalCount]

\* return { totalCount: 0, data: [] }, with hasMore: false in TypeScript
EmptyPage(c) ==
    PageResult(Arr(<<>>), Undefined, IF c = "js" THEN Undefined ELSE Bool(FALSE), Num(0))

\* queryFn of the infinite query after await APIHandler
pageFnOutcome(c, result) ==
    IF result.settled = "rejected" THEN Threw(String(result.message), "")
    ELSE IF Truthy(result.data)
    THEN LET page == Get(result.data, <<"page">>)
             totalPages == Get(result.data, <<"totalPages">>)
             hasMore == hasMoreOf(page, totalPages)
         IN  Returned(PageResult(Get(result.data, <<"data">>),
                                 IF hasMore THEN PlusOne(page) ELSE Undefined,
                                 Bool(hasMore),
                                 Get(result.data, <<"totalCount">>)))
    ELSE Returned(EmptyPage(c))

\* getNextPageParam: lastPage.hasMore ? lastPage.nextPage : undefined
getNextPageParam(lastPage) ==
    IF Truthy(lastPage.hasMore) THEN lastPage.nextPage ELSE Undefined

\* initialPageParam: 1 and the default pageParam = 1 of the TypeScript
\* copy; the JavaScript copy has neither
initialPageParam(c) == IF c = "js" THEN Undefined ELSE Num(1)

\* data: { ...data, page: pageParam }
pageRequestData(data, pageParam) ==
    IF data.t = "object"
    THEN Obj(SelectSeq(data.keys, LAMBDA k : k # <<"page">>) \o <<<<"page">>>>,
             [i \in 1..Len(SelectSeq(data.keys, LAMBDA k : k # <<"page">>)) |->
                 Get(data, SelectSeq(data.keys, LAMBDA k : k # <<"page">>)[i])]
                 \o <<pageParam>>)
    ELSE Obj(<<<<"page">>>>, <<pageParam>>)

\* the page a paginated server answers with: the page of the request
\* body, page 1 when the request carries none
ServerPage(request) ==
    IF request.hasBody /\ Get(request.body, <<"page">>).t = "number"
    THEN Get(request.body, <<"page">>)
    ELSE Num(1)

\* the body of a page response of a server with totalPages pages of one item
PageBody(page, totalPages) ==
    Obj(<<<<"data">>, <<"page">>, <<"totalPages">>, <<"totalCount">>>>,
        <<Arr(<<Str("item" \o ToString(page.n))>>), page, Num(totalPages), Num(totalPages)>>)

\* outcomes of a page request
PageOutcomes(request, totalPages) ==
    {Response(200, PageBody(ServerPage(request), totalPages)),
     Response(200, OkBody),
     Response(200, Null),
     AxiosError("Network Error"),
     AxiosErrorWith("Request failed with status code 500", 500, BadBody),
     AxiosErrorWith("Request failed with status code 500", 500, Null)}

\* a component that calls useGlobalInfiniteQuery
InfiniteInit ==
    /\ hook = "infinite"
    /\ api = [pc |-> "unused"]
    /\ copy \in {"js", "ts"}
    /\ params \in {QueryParams(m, d) : m \in {"GET", "POST", "PUT", "DELETE"}, d \in {Undefined, QueryData}}
    /\ cookie \in Cookies
    /\ excludedIndexKeys = [given |-> FALSE]
    /\ heap = <<>>
    /\ runs = <<>>
    /\ query = [pc |-> "unmounted"]
    /\ \E t \in 0..MaxTotalPages :
           infinite = [pc |-> "idle", totalPages |-> t, pageParams |-> <<>>,
                       requests |-> <<>>, outcomes |-> <<>>, pages |-> <<>>,
                       error |-> NoValue]

\* queryFn({ pageParam }) up to its await
pageFnStart(pageParam) ==
    LET call == ActionHandler(params.methodType,
                              pageRequestData(params.data, pageParam),
                              headersFor(cookie))
    IN  infinite' = [infinite EXCEPT !.pc = "fetching",
                                     !.pageParams = Append(@, pageParam),
                                     !.requests = Append(@, call.request)]

\* the infinite query mounts: the first page is fetched
InfiniteFetchFirst ==
    /\ hook = "infinite"
    /\ infinite.pc = "idle"
    /\ pageFnStart(initialPageParam(copy))
    /\ UNCHANGED <<encoderVars, excludedIndexKeys, hook, api, copy, cookie, params, heap, runs, query>>

\* fetchNextPage(): a request only if getNextPageParam gives a page
FetchNextPage ==
    /\ hook = "infinite"
    /\ infinite.pc = "ready"
    /\ Len(infinite.pageParams) < MaxRequests
    /\ getNextPageParam(infinite.pages[Len(infinite.pages)]) # Undefined
    /\ getNextPageParam(infinite.pages[Len(infinite.pages)]) # Null
    /\ pageFnStart(getNextPageParam(infinite.pages[Len(infinite.pages)]))
    /\ UNCHANGED <<encoderVars, excludedIndexKeys, hook, api, copy, cookie, params, heap, runs, query>>

\* the page request ends: queryFn returns the page or throws
InfiniteRespond(outcome) ==
    /\ hook = "infinite"
    /\ infinite.pc = "fetching"
    /\ outcome \in PageOutcomes(infinite.requests[Len(infinite.requests)], infinite.totalPages)
    /\ LET settled == pageFnOutcome(copy, APIHandler(copy, outcome))
       IN  infinite' = IF settled.kind = "returned"
                       THEN [infinite EXCEPT !.pc = "ready",
                                             !.outcomes = Append(@, outcome),
                                             !.pages = Append(@, settled.value)]
                       ELSE [infinite EXCEPT !.pc = "error",
                                             !.outcomes = Append(@, outcome),
                                             !.error = settled]
    /\ UNCHANGED <<encoderVars, excludedIndexKeys, hook, api, copy, cookie, params, heap, runs, query>>

InfiniteRespondStep ==
    /\ infinite.pc = "fetching"
    /\ \E outcome \in PageOutcomes(infinite.requests[Len(infinite.requests)],
                                    infinite.totalPages) :
           InfiniteRespond(outcome)

InfiniteNext == InfiniteFetchFirst \/ FetchNextPage \/ InfiniteRespondStep

InitInfinite == EncoderUnused /\ InfiniteInit
SpecInfinite == InitInfinite /\ [][InfiniteNext]_vars

-----------------------------------------------------------------------------
(* C20: next page detection.  After a page response reporting page p and   *)
(* totalPages t, the next page parameter is p + 1 if p < t and undefined   *)
(* otherwise (hasNextPage false); so over any sequence of fetchNextPage    *)
(* calls against a server that echoes the requested page, the requested    *)
(* page numbers increase by exactly 1 and no page greater than totalPages  *)
(* is ever requested.                                                      *)

\* the k-th request was answered with a page
IsPageResponse(k) ==
    /\ k \in 1..Len(infinite.outcomes)
    /\ infinite.outcomes[k].kind = "response"
    /\ infinite.outcomes[k].data.t = "object"
    /\ Get(infinite.outcomes[k].data, <<"page">>).t = "number"

ReportedPage(k) == Get(infinite.outcomes[k].data, <<"page">>)
ReportedTotal(k) == Get(infinite.outcomes[k].data, <<"totalPages">>)

\* every page response so far reported the page that was requested
ServerEchoed ==
    \A k \in 1..Len(infinite.outcomes) :
        (IsPageResponse(k) /\ infinite.pageParams[k].t = "number")
            => ReportedPage(k) = infinite.pageParams[k]

\* after a response reporting p and t the next page parameter is p + 1 if
\* p < t and undefined otherwise
NextPageRule ==
    \A k \in 1..Len(infinite.pages) :
        IsPageResponse(k) =>
            getNextPageParam(infinite.pages[k]) =
                IF ReportedPage(k).n < ReportedTotal(k).n
                THEN Num(ReportedPage(k).n + 1)
                ELSE Undefined

\* the requested page numbers increase by exactly 1
IncreaseByOne ==
    \A k \in 2..Len(infinite.pageParams) :
        /\ infinite.pageParams[k].t = "number"
        /\ infinite.pageParams[k - 1].t = "number"
               => infinite.pageParams[k].n = infinite.pageParams[k - 1].n + 1
        /\ infinite.pageParams[k - 1].t = "undefined" => infinite.pageParams[k].n = 2

\* no requested page is greater than the totalPages its response reports
NoPagePastTotal ==
    \A k \in 1..Len(infinite.outcomes) :
        (IsPageResponse(k) /\ infinite.pageParams[k].t = "number")
            => infinite.pageParams[k].n <= ReportedTotal(k).n

\* no page requested after the first is greater than the totalPages that
\* the response before it reported
NoLaterPagePastTotal ==
    \A k \in 2..Len(infinite.pageParams) :
        /\ IsPageResponse(k - 1)
        /\ infinite.pageParams[k].n <= ReportedTotal(k - 1).n

\* C20 as claimed
C20_NextPageDetection_Claimed ==
    (hook = "infinite" /\ ServerEchoed)
        => (NextPageRule /\ IncreaseByOne /\ NoPagePastTotal)

\* C20 as amended: the first page is requested before any totalPages is
\* known; every later page is within the totalPages reported before it
C20_NextPageDetection ==
    (hook = "infinite" /\ ServerEchoed)
        => (NextPageRule /\ IncreaseByOne /\ NoLaterPagePastTotal)

C20_Witness ==
    /\ hook = "infinite" /\ copy = "ts"
    /\ params.methodType = "POST"
    /\ infinite.totalPages = 2
    /\ infinite.pc = "ready"
    /\ infinite.pageParams = <<Num(1), Num(2)>>
    /\ ServerEchoed
    /\ IsPageResponse(1) /\ IsPageResponse(2)
    /\ getNextPageParam(infinite.pages[1]) = Num(2)
    /\ getNextPageParam(infinite.pages[2]) = Undefined
    /\ ~ENABLED FetchNextPage

-----------------------------------------------------------------------------
(* The three hooks together: a component calls one of them.                *)

InitHooks == InitMutation \/ InitQuery \/ InitInfinite
HooksNext == MutationNext \/ QueryNext \/ InfiniteNext
SpecHooks == InitHooks /\ [][HooksNext]_vars

-----------------------------------------------------------------------------
(* C18: authentication header.  Every request issued by useGlobalQuery,    *)
(* useGlobalMutation and useGlobalInfiniteQuery carries the header         *)
(* Authorization: "Bearer <token>" if and only if the accessToken cookie   *)
(* is present and non-empty, with <token> equal to the cookie value;       *)
(* otherwise the headers object is empty.                                  *)

\* the requests issued so far, by whichever hook is mounted
RequestsIssued ==
    {runs[i].request : i \in {j \in 1..Len(runs) : runs[j].request # NoRequest}}
    \cup (IF hook = "query" /\ query.request # NoRequest THEN {query.request} ELSE {})
    \cup (IF hook = "infinite"
          THEN {infinite.requests[k] : k \in 1..Len(infinite.requests)} \ {NoRequest}
          ELSE {})

HasToken ==
    /\ \E i \in 1..Len(cookie.keys) : cookie.keys[i] = <<"accessToken">>
    /\ Get(cookie, <<"accessToken">>).t = "string"
    /\ Get(cookie, <<"accessToken">>).s # ""

C18Holds(request) ==
    IF HasToken
    THEN /\ request.headers.keys = <<<<"Authorization">>>>
         /\ request.headers.vals =
                <<Str("Bearer " \o Get(cookie, <<"accessToken">>).s)>>
    ELSE request.headers = Obj(<<>>, <<>>)

\* C18 for every request of every hook
C18_AuthenticationHeader ==
    \A request \in RequestsIssued : C18Holds(request)

C18_Witness ==
    /\ hook = "mutation"
    /\ cookie = Obj(<<<<"accessToken">>>>, <<Str("tok")>>)
    /\ Len(runs) = 2
    /\ runs[1].request.method = "POST"
    /\ runs[1].request.headers = Obj(<<<<"Authorization">>>>, <<Str("Bearer tok")>>)
    /\ runs[2].request.headers = Obj(<<<<"Authorization">>>>, <<Str("Bearer tok")>>)

\* the query hooks issue requests with and without the header too
C18_QueryReached ==
    /\ hook = "query"
    /\ query.request.method = "GET"
    /\ query.request.headers = Obj(<<<<"Authorization">>>>, <<Str("Bearer tok")>>)

C18_InfiniteReached ==
    /\ hook = "infinite"
    /\ cookie = Obj(<<<<"accessToken">>>>, <<Str("")>>)
    /\ Len(infinite.requests) = 2
    /\ infinite.requests[2].headers = Obj(<<>>, <<>>)
-----------------------------------------------------------------------------
(* What useGlobalInfiniteQuery returns as queryData and totalCount,        *)
(* computed on every render from the pages React Query holds.              *)

RECURSIVE flatMapData_LastFirst(_)
\* the pages are flattened last page first
flatMapData_LastFirst(pages) ==
    IF pages = <<>> THEN <<>>
    ELSE flatMapData_LastFirst(Tail(pages))
         \o (IF Head(pages).data.t = "array"
             THEN Head(pages).data.items
             ELSE <<Head(pages).data>>)

RECURSIVE flatMapData(_)
\* pages.flatMap((page) => page.data): an array is spread into the
\* result, any other value (undefined too) is kept as one element
flatMapData(pages) ==
    IF pages = <<>> THEN <<>>
    ELSE (IF Head(pages).data.t = "array"
          THEN Head(pages).data.items
          ELSE <<Head(pages).data>>)
         \o flatMapData(Tail(pages))

\* const items = query?.data?.pages?.flatMap((page) => page.data) || []
queryDataOf(pages) ==
    IF pages = <<>> THEN Arr(<<>>) ELSE Arr(flatMapData(pages))

\* const totalCount = query?.data?.pages?.[0]?.totalCount ?? 0
totalCountOf(pages) ==
    IF pages = <<>> THEN Num(0)
    ELSE IF pages[1].totalCount.t \in {"null", "undefined"} THEN Num(0)
    ELSE pages[1].totalCount

-----------------------------------------------------------------------------
(* C21: flattened result and total count.  After any sequence of page      *)
(* fetches, queryData is the concatenation, in fetch order, of the data    *)
(* arrays of all fetched pages (empty list when no page is loaded), and    *)
(* totalCount is the totalCount of the first fetched page, or 0 when no    *)
(* page is loaded or the first page has none.                              *)

\* the data array of the k-th fetched page; a page without one adds nothing
DataArray(k) ==
    IF infinite.pages[k].data.t = "array" THEN infinite.pages[k].data.items ELSE <<>>

RECURSIVE ItemsUpTo(_)
\* the number of items in the data arrays of the first k pages
ItemsUpTo(k) == IF k = 0 THEN 0 ELSE ItemsUpTo(k - 1) + Len(DataArray(k))

\* queryData holds the items of the data arrays, page after page
IsConcatenation(list) ==
    /\ list.t = "array"
    /\ Len(list.items) = ItemsUpTo(Len(infinite.pages))
    /\ \A k \in 1..Len(infinite.pages) :
           \A j \in 1..Len(DataArray(k)) :
               list.items[ItemsUpTo(k - 1) + j] = DataArray(k)[j]

\* totalCount is that of the first page, 0 without one
IsFirstTotal(count) ==
    IF Len(infinite.pages) = 0 THEN count = Num(0)
    ELSE IF infinite.pages[1].totalCount = Undefined THEN count = Num(0)
    ELSE count = infinite.pages[1].totalCount

\* C21 for every state of the infinite query
C21_FlattenedResult ==
    hook = "infinite" =>
        /\ IsConcatenation(queryDataOf(infinite.pages))
        /\ IsFirstTotal(totalCountOf(infinite.pages))

\* two pages of one item each are loaded: queryData holds them in order
C21_TwoPagesLoaded ==
    /\ hook = "infinite"
    /\ Len(infinite.pages) = 2
    /\ queryDataOf(infinite.pages) = Arr(<<Str("item1"), Str("item2")>>)
    /\ totalCountOf(infinite.pages) = Num(2)

\* a 200 response whose body has no data: queryData is [undefined]
C21_UndefinedItem ==
    /\ hook = "infinite"
    /\ Len(infinite.pages) = 1
    /\ infinite.outcomes[1] = Response(200, OkBody)
    /\ queryDataOf(infinite.pages) = Arr(<<Undefined>>)
    /\ totalCountOf(infinite.pages) = Num(0)

\* C21 holds as long as every page has a data array
C21_WithDataArrays ==
    (/\ hook = "infinite"
     /\ \A k \in 1..Len(infinite.pages) : infinite.pages[k].data.t = "array")
        => C21_FlattenedResult
-----------------------------------------------------------------------------
(* C22: request payload of the infinite query.  For every methodType      *)
(* (GET, POST, PUT, DELETE), each page request that useGlobalInfiniteQuery *)
(* hands to the HTTP transport carries the caller-supplied data together   *)
(* with the current page parameter.                                        *)

\* the request carries every field of the caller's data
CarriesCallerData(request) ==
    /\ request.hasBody
    /\ params.data.t = "object" =>
           \A i \in 1..Len(params.data.keys) :
               Get(request.body, params.data.keys[i]) = params.data.vals[i]

\* the request carries the page parameter queryFn was called with
CarriesPage(request, pageParam) ==
    /\ request.hasBody
    /\ \E i \in 1..Len(request.body.keys) : request.body.keys[i] = <<"page">>
    /\ Get(request.body, <<"page">>) = pageParam

C22Holds(k) ==
    /\ CarriesCallerData(infinite.requests[k])
    /\ CarriesPage(infinite.requests[k], infinite.pageParams[k])

\* C22 for every page request of every methodType
C22_RequestPayload ==
    hook = "infinite" =>
        \A k \in 1..Len(infinite.requests) : C22Holds(k)

\* C22 holds for the methods other than GET
C22_ExceptGet ==
    (hook = "infinite" /\ params.methodType # "GET") =>
        \A k \in 1..Len(infinite.requests) : C22Holds(k)

\* a POST request for the second page carries the data and the page
C22_PostCarries ==
    /\ hook = "infinite"
    /\ params.methodType = "POST"
    /\ params.data = QueryData
    /\ Len(infinite.requests) = 2
    /\ infinite.requests[2].body =
           Obj(<<<<"search">>, <<"page">>>>, <<Str("q"), Num(2)>>)

\* a GET request is handed to the transport without data and page
C22_GetWithoutPayload ==
    /\ hook = "infinite"
    /\ params.methodType = "GET"
    /\ params.data = QueryData
    /\ Len(infinite.requests) = 1
    /\ infinite.requests[1].method = "GET"
    /\ ~infinite.requests[1].hasBody
-----------------------------------------------------------------------------
(* APIHandler called on its own: APIHandler({ action, url, data, headers }) *)
(* awaits ActionHandler and maps what that gives to its result object.     *)

\* the actions a caller passes; PATCH has no case in ActionHandler
ApiActions == {"GET", "POST", "PUT", "DELETE", "PATCH"}

\* response statuses: around the bounds of 200..299, and beyond
ApiStatuses == {199, 200, 204, 299, 300, 404, 500}

\* response bodies as axios hands them on: a parsed mapping, an empty
\* mapping, the empty text of a response without body, and JSON null
ApiBodies == {OkBody, Obj(<<>>, <<>>), Str(""), Null}

\* what awaiting ActionHandler gives for a request that was sent
ApiOutcomes ==
    {Response(status, body) : status \in ApiStatuses, body \in ApiBodies}
    \cup {AxiosError("Network Error"), AxiosError("timeout of 1000ms exceeded")}
    \cup {AxiosErrorWith("Request failed with status code 500", 500, body) :
              body \in ApiBodies \cup {BadBody}}
    \cup {Exception("interceptor failed")}

\* a caller about to call APIHandler
ApiInit ==
    /\ hook = "adapter"
    /\ copy \in {"js", "ts"}
    /\ cookie = NoCookie
    /\ params = Obj(<<>>, <<>>)
    /\ excludedIndexKeys = [given |-> FALSE]
    /\ heap = <<>>
    /\ runs = <<>>
    /\ query = [pc |-> "unmounted"]
    /\ infinite = [pc |-> "unmounted"]
    /\ \E action \in ApiActions, data \in {Undefined, QueryData},
          headers \in {NoHeaders, headersFor(TokenCookie)} :
           api = [pc |-> "idle", action |-> action, data |-> data, headers |-> headers,
                  request |-> NoRequest, outcome |-> NoOutcome, result |-> NoResult]

\* APIHandler up to its await: ActionHandler hands the request to axios,
\* or throws for an action without a case
ApiCall ==
    /\ hook = "adapter"
    /\ api.pc = "idle"
    /\ api' = [api EXCEPT !.pc = "awaiting",
                          !.request = ActionHandler(api.action, api.data, api.headers).request]
    /\ UNCHANGED <<encoderVars, excludedIndexKeys, hook, copy, cookie, params, heap, runs,
                   query, infinite>>

\* the await ends: APIHandler returns its result, or an exception leaves it
ApiSettle(outcome) ==
    /\ hook = "adapter"
    /\ api.pc = "awaiting"
    /\ IF ActionHandler(api.action, api.data, api.headers).threw
       THEN outcome = InvalidAction
       ELSE outcome \in ApiOutcomes
    /\ api' = [api EXCEPT !.pc = APIHandler(copy, outcome).settled,
                          !.outcome = outcome,
                          !.result = APIHandler(copy, outcome)]
    /\ UNCHANGED <<encoderVars, excludedIndexKeys, hook, copy, cookie, params, heap, runs,
                   query, infinite>>

ApiSettleStep == \E outcome \in ApiOutcomes \cup {InvalidAction} : ApiSettle(outcome)

ApiNext == ApiCall \/ ApiSettleStep

InitApi == EncoderUnused /\ ApiInit
SpecApi == InitApi /\ [][ApiNext]_vars

\* APIHandler has settled
ApiSettled == hook = "adapter" /\ api.pc \in {"resolved", "rejected"}

-----------------------------------------------------------------------------
(* C23: two-variant result of the adapter.  APIHandler returns status      *)
(* true, with data equal to the response body and statusCode equal to the  *)
(* response status, if and only if the transport resolved with a status in *)
(* 200..299 (for every response body, including a null or empty body); in  *)
(* every other outcome it returns status false.                            *)

\* the transport resolved with a status in 200..299
Resolved2xx(outcome) ==
    outcome.kind = "response" /\ outcome.status \in 200..299

\* the success variant for that response
IsSuccessOf(result, outcome) ==
    /\ result.settled = "resolved"
    /\ result.status = TRUE
    /\ result.data = outcome.data
    /\ result.statusCode = Num(outcome.status)

\* the failure variant
IsFailure(result) ==
    /\ result.settled = "resolved"
    /\ result.status = FALSE

C23Holds(result, outcome) ==
    IF Resolved2xx(outcome) THEN IsSuccessOf(result, outcome) ELSE IsFailure(result)

\* C23 for every call that has settled
C23_TwoVariantResult ==
    ApiSettled => C23Holds(api.result, api.outcome)

\* C23 holds where the body of the response is neither null nor undefined
C23_WithBody ==
    (ApiSettled /\ ~(api.outcome.hasResponse /\ IsNil(api.outcome.data)))
        => C23Holds(api.result, api.outcome)

\* a 204 with an empty body gives the success variant
C23_EmptyBodySucceeds ==
    /\ ApiSettled
    /\ api.outcome = Response(204, Str(""))
    /\ api.result = Result(TRUE, Str(""), Undefined, Undefined, Num(204), Undefined)

\* a 200 with a null body gives the failure variant, in both copies
C23_NullBodyFailsJs ==
    /\ ApiSettled /\ copy = "js"
    /\ api.outcome = Response(200, Null)
    /\ api.result = ApiFailed(Undefined)

C23_NullBodyFailsTs ==
    /\ ApiSettled /\ copy = "ts"
    /\ api.outcome = Response(200, Null)
    /\ api.result = ApiFailed(Undefined)

-----------------------------------------------------------------------------
(* C24: APIHandler is total.  For every action (including one outside      *)
(* GET/POST/PUT/DELETE) and every transport outcome (any response status,  *)
(* a 'Network Error', an HTTP-client error with or without a response, any *)
(* other thrown exception) APIHandler resolves with a result object and    *)
(* never rejects; an invalid action yields status false with error         *)
(* "API Failed" without any request being sent, and a 'Network Error'      *)
(* yields status false with message "Network Error" and no statusCode.     *)

\* APIHandler never rejects
NeverRejects == api.pc # "rejected"

\* an invalid action: status false, error "API Failed", no request
InvalidActionFails ==
    (api.pc \in {"awaiting", "resolved", "rejected"}
     /\ api.action \notin {"GET", "POST", "PUT", "DELETE"})
        => /\ api.request = NoRequest
           /\ api.pc # "awaiting" =>
                  /\ api.result.settled = "resolved"
                  /\ api.result.status = FALSE
                  /\ api.result.error = Str("API Failed")

\* a 'Network Error': status false, that message, no statusCode
NetworkErrorFails ==
    (ApiSettled /\ api.outcome = AxiosError("Network Error"))
        => /\ api.result.settled = "resolved"
           /\ api.result.status = FALSE
           /\ api.result.message = Str("Network Error")
           /\ api.result.statusCode = Undefined

\* C24 for every call
C24_Total ==
    hook = "adapter" => (NeverRejects /\ InvalidActionFails /\ NetworkErrorFails)

\* C24 holds for the TypeScript copy
C24_TotalTs ==
    (hook = "adapter" /\ copy = "ts")
        => (NeverRejects /\ InvalidActionFails /\ NetworkErrorFails)

\* the JavaScript copy rejects on an error response with a null body
C24_RejectionReached ==
    /\ hook = "adapter" /\ copy = "js"
    /\ api.outcome = AxiosErrorWith("Request failed with status code 500", 500, Null)
    /\ api.pc = "rejected"
    /\ api.result = Rejection("TypeError")

\* an invalid action settles without request
C24_InvalidActionReached ==
    /\ hook = "adapter"
    /\ api.action = "PATCH"
    /\ api.pc = "resolved"
    /\ api.request = NoRequest
    /\ api.result = ApiFailed(Undefined)

\* a 'Network Error' settles
C24_NetworkErrorReached ==
    /\ hook = "adapter"
    /\ api.pc = "resolved"
    /\ api.outcome = AxiosError("Network Error")
    /\ api.result = NetworkError
-----------------------------------------------------------------------------
(* C25: the JavaScript and the TypeScript copy of the form encoder are     *)
(* equivalent.  For every input tree with a mapping root and every         *)
(* exclusion set, the two copies append the same sequence of (field name,  *)
(* value) pairs, where a primitive value and its string form count as the  *)
(* same value.                                                             *)

\* both copies have been run on the input
BothRan == pcJs \in {"done", "threw"} /\ pcTs \in {"done", "threw"}

\* C25 for every input both copies were run on
C25_CopiesEquivalent ==
    (BothRan /\ dataToUpload.t = "object")
        => (pcJs = pcTs /\ formDataJs = formDataTs)

RECURSIVE HasEmptyField(_)
\* some mapping of the tree has the empty string as a value
HasEmptyField(v) ==
    CASE v.t = "object" ->
             \E i \in 1..Len(v.vals) :
                 IsEmptyString(v.vals[i]) \/ HasEmptyField(v.vals[i])
      [] v.t = "array" -> \E i \in 1..Len(v.items) : HasEmptyField(v.items[i])
      [] OTHER -> FALSE

\* the copies agree on every tree without an empty string as a mapping value
C25_WithoutEmptyFields ==
    (BothRan /\ dataToUpload.t = "object" /\ ~HasEmptyField(dataToUpload))
        => (pcJs = pcTs /\ formDataJs = formDataTs)

\* the copies agree on a nested tree with an excluded array
C25_AgreementReached ==
    /\ pcJs = "done" /\ pcTs = "done"
    /\ Len(formDataJs) >= 3
    /\ ExcludedOf(excludedIndexKeys) # {}
    /\ \E i \in 1..Len(dataToUpload.vals) : dataToUpload.vals[i].t = "array"
    /\ formDataJs = formDataTs

\* on {a: ""}-like input the TypeScript copy appends a pair the JavaScript
\* copy does not
C25_DifferenceReached ==
    /\ pcJs = "done" /\ pcTs = "done"
    /\ \E i \in 1..Len(dataToUpload.vals) : IsEmptyString(dataToUpload.vals[i])
    /\ Len(formDataTs) = Len(formDataJs) + 1
    /\ \E i \in 1..Len(formDataTs) : formDataTs[i].value = ""
    /\ \A i \in 1..Len(formDataJs) : formDataJs[i].value # ""
-----------------------------------------------------------------------------
(* C26: a failed page fetch ends pagination silently.  When the API        *)
(* request for a page of useGlobalInfiniteQuery fails (APIHandler result   *)
(* without data), the query function resolves with the page                *)
(* {data: [], totalCount: 0}, getNextPageParam returns undefined for it so *)
(* no further page is requested, the items of the pages fetched before     *)
(* stay in queryData, and the query does not enter the error state.        *)

\* APIHandler resolved the k-th page request with a result without data
ResultWithoutData(k) ==
    /\ APIHandler(copy, infinite.outcomes[k]).settled = "resolved"
    /\ ~Truthy(APIHandler(copy, infinite.outcomes[k]).data)

\* what the claim says of the k-th page request, once it has failed
C26Holds(k) ==
    /\ infinite.pc # "error"
    /\ k <= Len(infinite.pages)
    /\ infinite.pages[k].data = Arr(<<>>)
    /\ infinite.pages[k].totalCount = Num(0)
    /\ getNextPageParam(infinite.pages[k]) = Undefined
    /\ Len(infinite.pageParams) = k
    /\ infinite.pc = "ready" /\ ~ENABLED FetchNextPage
    /\ queryDataOf(infinite.pages) = queryDataOf(SubSeq(infinite.pages, 1, k - 1))

\* C26 for every page request that has failed
C26_FailedFetchEndsPagination ==
    hook = "infinite" =>
        \A k \in 1..Len(infinite.outcomes) :
            RequestFailed(infinite.outcomes[k]) => C26Holds(k)

\* C26 for the page requests that APIHandler resolves without data
C26_WhenResolved ==
    hook = "infinite" =>
        \A k \in 1..Len(infinite.outcomes) :
            ResultWithoutData(k) => C26Holds(k)

\* the second page request fails: the item of the first page stays
C26_SecondPageFailed ==
    /\ hook = "infinite"
    /\ Len(infinite.outcomes) = 2
    /\ infinite.outcomes[2] = AxiosError("Network Error")
    /\ ResultWithoutData(2)
    /\ C26Holds(2)
    /\ queryDataOf(infinite.pages) = Arr(<<Str("item1")>>)

\* the JavaScript copy: APIHandler rejects and the query is in error
C26_ErrorStateReached ==
    /\ hook = "infinite" /\ copy = "js"
    /\ infinite.pc = "error"
    /\ Len(infinite.outcomes) = 2
    /\ infinite.outcomes[2] =
           AxiosErrorWith("Request failed with status code 500", 500, Null)
    /\ infinite.error.kind = "threw"

====
